---- MODULE Spec2Model ----
(***************************************************************************)
(* Bulk reconciliation engine of backend-rgbi: the bulk import handlers    *)
(* (connections, supply chain, food security, GWPR, clustering), the       *)
(* single-entity create handlers and updateConnection, running as          *)
(* concurrent requests against one MongoDB collection.                     *)
(*                                                                         *)
(* Storage semantics the handlers rely on (MongoDB multi-document          *)
(* transactions as used through session.startTransaction):                 *)
(*  - a read issued without { session } sees committed documents only;     *)
(*  - a write issued with { session } is buffered in the transaction and   *)
(*    becomes visible at commitTransaction, all writes at once;            *)
(*  - a server-side write error inside a transaction (duplicate key,       *)
(*    write conflict) aborts that transaction on the server: every later   *)
(*    write of the session and its commitTransaction throw;                *)
(*  - a schema ValidationError is raised by mongoose before anything is    *)
(*    sent, so it leaves the transaction untouched;                        *)
(*  - an infrastructure failure (network, pool) of one operation may or    *)
(*    may not leave the transaction usable: both outcomes are modelled.    *)
(* One behaviour is about one dataset type (ds): each type has its own     *)
(* collection and the handlers of one type never touch another's.          *)
(***************************************************************************)
EXTENDS Integers, Sequences, FiniteSets, TLC

\* ---- bounds of the model ----
MaxBatch == 2      \* longest batch submitted in one call
MaxRows == 2       \* rows submitted by all calls of one behaviour together

Workers == {1, 2}  \* concurrent requests, one call each

Datasets == {"connections", "supplychain", "foodsecurity", "gwpr", "clustering"}

\* ---- program constants ----
MinYear == 2000
MaxYear == 2100
MaxYearClustering == 2045
MaxIndeks == 100
MinClusterId == -1
MinKelompok == 1

\* ---- encodings of JavaScript values ----
NoStr == "-"       \* a string field that the document does not have
Missing == ""      \* falsy string in a request (undefined / empty)
NoYear == 0        \* falsy year in a request; absent year in a document
Absent == -9       \* numeric field not present in the request row
NoField == -1      \* property the response object does not have
NoDoc == 0         \* findOne / findById returned null

\* ---- Province registry (seeded once, read-only for these handlers) ----
Provinces == {"a", "b"}

ProvinceName(id) == IF id = "a" THEN "Aceh" ELSE IF id = "b" THEN "Bali" ELSE "Jambi"

\* mongoose casts a 24-hex string to an ObjectId; hex digits are
\* case-insensitive, so "A" and "a" spell the same id.
Canon(s) == IF s = "A" THEN "a" ELSE s

\* Province.findById(id): the canonical id, or NoStr when no such province
FindProvince(s) == IF Canon(s) \in Provinces THEN Canon(s) ELSE NoStr

\* ---- request rows: [p, q, y, v] ----
\* p: provinceId / sourceProvinceId, q: targetProvinceId (connections),
\* y: tahun / year, v: the payload (indeks_ketahanan_pangan, produksiBeras,
\* kelompok, cluster_id)
Row(p, q, y, v) == [p |-> p, q |-> q, y |-> y, v |-> v]

Rows(d) ==
  CASE d = "connections" ->
         { Row("a", "b", 2020, 0), Row("a", "b", 2021, 0),
           Row("a", "a", 2020, 0), Row("A", "a", 2020, 0),
           Row("a", "z", 2020, 0), Row("a", "b", NoYear, 0) }
    [] d = "supplychain" ->
         { Row("a", NoStr, 2020, 1), Row("a", NoStr, 2020, 2),
           Row("b", NoStr, 2020, 1), Row("z", NoStr, 2020, 1),
           Row("a", NoStr, NoYear, 1), Row("a", NoStr, 2020, Absent) }
    [] d = "foodsecurity" ->
         { Row("a", NoStr, 2020, 40), Row("a", NoStr, 2020, 80),
           Row("b", NoStr, 2020, 40), Row("z", NoStr, 2020, 40),
           Row("a", NoStr, 2020, 0), Row("a", NoStr, 2020, 120) }
    [] d = "gwpr" ->
         { Row("a", NoStr, 2020, 1), Row("a", NoStr, 2021, 1),
           Row("a", NoStr, 2020, 2), Row("b", NoStr, 2020, 1),
           Row("z", NoStr, 2020, 1), Row("a", NoStr, 2020, 0) }
    [] OTHER ->
         { Row("a", NoStr, 2020, 1), Row("a", NoStr, 2020, 2),
           Row("b", NoStr, 2020, 1), Row("z", NoStr, 2020, 1),
           Row("a", NoStr, 2050, 1), Row("a", NoStr, 2020, -2) }

Batches(d) == UNION { [1..n -> Rows(d)] : n \in 0..MaxBatch }

VARIABLES
  ds,           \* the dataset type this behaviour is about
  strictQuery,  \* mongoose strictQuery option of the build (default differs by major version)
  store,        \* committed documents of the collection
  nextId,       \* next _id the collection hands out
  call,         \* per request: handler position, transaction, result
  faulted,      \* an infrastructure failure has been injected (at most one per behaviour)
  mapDb,        \* what map composition reads: provinces with geoData and the fact collections
  resp          \* the response of the last map or single-record request

vars == <<ds, strictQuery, store, nextId, call, faulted, mapDb, resp>>

\* ---- handler-level validation, before any storage access ----
YearOk(d, y) ==
  IF d = "clustering" THEN y >= MinYear /\ y <= MaxYearClustering
  ELSE y >= MinYear /\ y <= MaxYear

\* "ok" or the error the row's try block throws before the existence lookup
HandlerCheck(d, r) ==
  CASE d = "connections" ->
         IF r.p = Missing \/ r.q = Missing \/ r.y = NoYear THEN "missing"
         ELSE IF r.p = r.q THEN "self"
         ELSE IF FindProvince(r.p) = NoStr \/ FindProvince(r.q) = NoStr THEN "notfound"
         ELSE "ok"
    [] d = "supplychain" ->
         IF r.p = Missing \/ r.y = NoYear THEN "missing"
         ELSE IF ~YearOk(d, r.y) THEN "invalid"
         ELSE IF FindProvince(r.p) = NoStr THEN "notfound"
         ELSE "ok"
    [] d = "foodsecurity" ->
         IF r.p = Missing \/ r.y = NoYear \/ r.v = 0 \/ r.v = Absent THEN "missing"
         ELSE IF ~YearOk(d, r.y) THEN "invalid"
         ELSE IF FindProvince(r.p) = NoStr THEN "notfound"
         ELSE "ok"
    [] d = "gwpr" ->
         IF r.p = Missing \/ r.y = NoYear \/ r.v = 0 \/ r.v = Absent THEN "missing"
         ELSE IF ~YearOk(d, r.y) THEN "invalid"
         ELSE IF r.v < MinKelompok THEN "invalid"
         ELSE IF FindProvince(r.p) = NoStr THEN "notfound"
         ELSE "ok"
    [] OTHER ->
         IF r.p = Missing \/ r.y = NoYear \/ r.v = Absent THEN "missing"
         ELSE IF ~YearOk(d, r.y) THEN "invalid"
         ELSE IF r.v < MinClusterId THEN "invalid"
         ELSE IF FindProvince(r.p) = NoStr THEN "notfound"
         ELSE "ok"

\* ---- documents: [id, pid, name, q, y, v] ----
\* The fields a create / $set writes for a row. Paths that the schema does
\* not declare are dropped by mongoose strict mode: provinceReference on
\* supply chain and food security, tahun and provinsi on GWPR.
Entry(d, r) ==
  CASE d = "connections" ->
         [pid |-> Canon(r.p), name |-> NoStr, q |-> Canon(r.q), y |-> r.y, v |-> 0]
    [] d \in {"supplychain", "foodsecurity"} ->
         [pid |-> NoStr, name |-> ProvinceName(Canon(r.p)), q |-> NoStr, y |-> r.y, v |-> r.v]
    [] d = "gwpr" ->
         [pid |-> Canon(r.p), name |-> NoStr, q |-> NoStr, y |-> NoYear, v |-> r.v]
    [] OTHER ->
         [pid |-> Canon(r.p), name |-> ProvinceName(Canon(r.p)), q |-> NoStr, y |-> r.y, v |-> r.v]

WithId(e, id) == [id |-> id, pid |-> e.pid, name |-> e.name, q |-> e.q, y |-> e.y, v |-> e.v]

Fields(doc) == [pid |-> doc.pid, name |-> doc.name, q |-> doc.q, y |-> doc.y, v |-> doc.v]

\* { $set: e } on an existing document: a field the row does not carry stays
SetFields(doc, e) ==
  [id |-> doc.id, pid |-> e.pid, name |-> e.name, q |-> e.q, y |-> e.y,
   v |-> IF e.v = Absent THEN doc.v ELSE e.v]

\* the schemas without the pre('validate') hook of the connection model
SchemaOkCreateNoHook(d, e) ==
  CASE d = "connections" -> TRUE
    [] d = "supplychain" -> e.v # Absent
    [] d = "foodsecurity" -> e.v >= 0 /\ e.v <= MaxIndeks /\ e.y >= MinYear /\ e.y <= MaxYear
    [] d = "gwpr" -> e.v >= MinKelompok
    [] OTHER -> e.v >= MinClusterId /\ e.y >= MinYear /\ e.y <= MaxYearClustering

\* mongoose schema validation of a create
SchemaOkCreate(d, e) ==
  CASE d = "connections" -> e.pid # e.q
    [] d = "supplychain" -> e.v # Absent
    [] d = "foodsecurity" -> e.v >= 0 /\ e.v <= MaxIndeks /\ e.y >= MinYear /\ e.y <= MaxYear
    [] d = "gwpr" -> e.v >= MinKelompok
    [] OTHER -> e.v >= MinClusterId /\ e.y >= MinYear /\ e.y <= MaxYearClustering

\* runValidators on findByIdAndUpdate: only the paths in $set are validated
SchemaOkUpdate(d, e) ==
  CASE d = "foodsecurity" -> e.v >= 0 /\ e.v <= MaxIndeks /\ e.y >= MinYear /\ e.y <= MaxYear
    [] d = "gwpr" -> e.v >= MinKelompok
    [] d = "clustering" -> e.v >= MinClusterId /\ e.y >= MinYear /\ e.y <= MaxYearClustering
    [] OTHER -> TRUE

\* ---- the existence lookup of a row ----
MatchesFilter(d, sq, doc, r) ==
  CASE d = "connections" -> doc.pid = Canon(r.p) /\ doc.q = Canon(r.q) /\ doc.y = r.y
    [] d \in {"supplychain", "foodsecurity"} ->
         doc.name = ProvinceName(Canon(r.p)) /\ doc.y = r.y
    [] d = "gwpr" -> sq
    [] OTHER -> doc.pid = Canon(r.p) /\ doc.y = r.y

MinOf(S) == CHOOSE x \in S : \A z \in S : x <= z

\* Model.findOne(filter) without a session: first committed match, or null
FindOne(d, sq, S, r) ==
  LET hits == { doc.id : doc \in { x \in S : MatchesFilter(d, sq, x, r) } }
  IN IF hits = {} THEN NoDoc ELSE MinOf(hits)

DocById(S, id) == CHOOSE doc \in S : doc.id = id

\* ---- unique indexes ----
HasUniqueIndex(d) == d \in {"connections", "foodsecurity", "gwpr"}

IndexKey(d, e) ==
  CASE d = "connections" -> <<e.pid, e.q, e.y>>
    [] d = "foodsecurity" -> <<e.name, e.y>>
    [] d = "gwpr" -> <<e.pid, e.v>>
    [] OTHER -> <<e.pid, e.name, e.y>>

\* ---- transactions ----
Active(c) == c.pc \in {"lookup", "write", "commit"}

\* pending writes of a transaction that the server still holds
Pending(c) == IF Active(c) /\ ~c.txDead THEN c.tx ELSE <<>>

PendingInserts(c) == { Pending(c)[k].e : k \in { j \in 1..Len(Pending(c)) : Pending(c)[j].op = "ins" } }

PendingUpdates(c) == { Pending(c)[k].id : k \in { j \in 1..Len(Pending(c)) : Pending(c)[j].op = "upd" } }

\* index keys held by committed documents other than `except` and by the
\* uncommitted inserts of every open transaction
KeysInUse(d, S, C, except) ==
  { IndexKey(d, Fields(doc)) : doc \in { x \in S : x.id # except } }
    \cup UNION { { IndexKey(d, e) : e \in PendingInserts(C[w]) } : w \in Workers }

InsertConflicts(d, S, C, e) == HasUniqueIndex(d) /\ IndexKey(d, e) \in KeysInUse(d, S, C, NoDoc)

UpdateConflicts(d, S, C, w, id, e) ==
  \/ \E o \in Workers \ {w} : id \in PendingUpdates(C[o])
  \/ HasUniqueIndex(d) /\ IndexKey(d, e) \in KeysInUse(d, S, C, id)

RECURSIVE ApplyTx(_, _, _)
\* commitTransaction: every buffered write becomes visible
ApplyTx(S, tx, n) ==
  IF tx = <<>> THEN S
  ELSE LET wr == Head(tx)
       IN IF wr.op = "ins"
          THEN ApplyTx(S \cup {WithId(wr.e, n)}, Tail(tx), n + 1)
          ELSE ApplyTx({ IF doc.id = wr.id THEN SetFields(doc, wr.e) ELSE doc : doc \in S },
                       Tail(tx), n)

RECURSIVE CountIns(_)
CountIns(tx) ==
  IF tx = <<>> THEN 0
  ELSE (IF Head(tx).op = "ins" THEN 1 ELSE 0) + CountIns(Tail(tx))

\* ---- the result object of a bulk import ----
\* bulkImportConnections has no processedCount and its error entries have
\* no index
NewResult(d) ==
  [created |-> 0, updated |-> 0, failed |-> 0, errors |-> <<>>,
   processed |-> IF d = "connections" THEN NoField ELSE 0]

ErrorEntry(d, i, r, kind) ==
  [index |-> IF d = "connections" THEN NoField ELSE i, row |-> r, error |-> kind]

\* result.processedCount++ at the top of the row's try block
Processed(d, res) ==
  [res EXCEPT !.processed = IF d = "connections" THEN NoField ELSE @ + 1]

\* a catch block that counts the row and records no error entry
FailedNoEntry(d, res, i, r, kind) == [res EXCEPT !.failed = @ + 1]

\* the row's catch block: result.failed++ and result.errors.push(...)
Failed(d, res, i, r, kind) ==
  [res EXCEPT !.failed = @ + 1, !.errors = Append(@, ErrorEntry(d, i, r, kind))]

IdleCall ==
  [kind |-> "none", pc |-> "idle", batch |-> <<>>, i |-> 1, hit |-> NoDoc,
   tx |-> <<>>, txDead |-> FALSE, txState |-> "none",
   res |-> NewResult("connections"), rowOut |-> <<>>, outcome |-> "none",
   start |-> {}, end |-> {}, overlap |-> FALSE, fault |-> FALSE]

RowsInFlight == LET n(w) == Len(call[w].batch) IN n(1) + n(2)

\* where the loop goes after row i
AfterRow(c) == IF c.i >= Len(c.batch) THEN "commit" ELSE "lookup"

\* no map request and no single-record request has been served
NoMapDb == [geo |-> {}, fs |-> {}, sc |-> {}, conn |-> {}]

\* metadata of a map response; NoField for a property the handler does not set
Metadata(total, scFound, conns, fsCount, scCount) ==
  [totalProvinces |-> total, supplyChainRecordsFound |-> scFound,
   totalConnections |-> conns, foodSecurityCount |-> fsCount, supplyChainCount |-> scCount]

NoMetadata == Metadata(NoField, NoField, NoField, NoField, NoField)

\* a response: status, the request it answers, the body's features,
\* connections, metadata and availableYears, and the names of the optional
\* properties the body carries (keys)
Response(status, mode, year, features, connections, metadata, keys, years) ==
  [status |-> status, mode |-> mode, year |-> year, features |-> features,
   connections |-> connections, metadata |-> metadata, keys |-> keys,
   availableYears |-> years]

NoResp == Response("none", NoStr, NoYear, {}, {}, NoMetadata, {}, {})

Init ==
  /\ mapDb = NoMapDb
  /\ resp = NoResp
  /\ ds \in Datasets
  /\ strictQuery \in (IF ds = "gwpr" THEN BOOLEAN ELSE {FALSE})
  /\ store = {}
  /\ nextId = 1
  /\ call = [w \in Workers |-> IdleCall]
  /\ faulted = FALSE

\* ---- bulk import: request arrives, session and transaction start ----
\* The requests are interchangeable: request 2 is the one that arrives second.
MayStart(w) == call[w].pc = "idle" /\ (w = 1 \/ call[1].pc # "idle")

\* request w starts as `mine`; a request that is in flight now overlaps with it
Arrive(w, mine) ==
  [o \in Workers |->
     IF o = w THEN [mine EXCEPT !.start = store,
                                !.overlap = \E x \in Workers \ {w} : Active(call[x])]
     ELSE IF Active(call[o]) /\ Active(mine) THEN [call[o] EXCEPT !.overlap = TRUE]
     ELSE call[o]]

StartBulk(w, batch) ==
  /\ MayStart(w)
  /\ Len(batch) + RowsInFlight <= MaxRows
  /\ call' = Arrive(w, [IdleCall EXCEPT
                !.kind = "bulk", !.batch = batch, !.txState = "active",
                !.res = NewResult(ds),
                \* empty batch: 400 is returned from inside the try block,
                \* the transaction is neither committed nor aborted
                !.pc = IF batch = <<>> THEN "done" ELSE "lookup",
                !.outcome = IF batch = <<>> THEN "badrequest" ELSE "none"])
  /\ UNCHANGED <<mapDb, resp, ds, strictQuery, store, nextId, faulted>>

\* ---- bulk import: validation, province lookup and existence lookup of row i ----
Lookup(w) ==
  LET c == call[w]
      r == c.batch[c.i]
      chk == HandlerCheck(ds, r)
      res1 == Processed(ds, c.res)
  IN /\ c.pc = "lookup"
     /\ c.kind = "bulk"
     /\ IF chk # "ok"
        THEN call' = [call EXCEPT ![w] =
                        [c EXCEPT !.res = Failed(ds, res1, c.i, r, chk),
                                  !.rowOut = Append(@, chk),
                                  !.i = @ + 1,
                                  !.pc = AfterRow(c)]]
        ELSE call' = [call EXCEPT ![w] =
                        [c EXCEPT !.res = res1,
                                  !.hit = FindOne(ds, strictQuery, store, r),
                                  !.pc = "write"]]
     /\ UNCHANGED <<mapDb, resp, ds, strictQuery, store, nextId, faulted>>

\* what the write of row i does: <<row outcome, new tx, new txDead>>
WriteOutcome(d, S, C, w, fault) ==
  LET c == C[w]
      r == c.batch[c.i]
      e == Entry(d, r)
  IN IF c.hit # NoDoc
     THEN \* existing record
          IF d = "connections"
          THEN <<"updated", c.tx, c.txDead>>      \* save() of an unmodified document
          ELSE IF ~SchemaOkUpdate(d, e) THEN <<"schema", c.tx, c.txDead>>
          ELSE IF c.txDead THEN <<"txaborted", c.tx, TRUE>>
          ELSE IF fault = "lost" THEN <<"infra", c.tx, FALSE>>
          ELSE IF fault = "dead" THEN <<"infra", <<>>, TRUE>>
          ELSE IF UpdateConflicts(d, S, C, w, c.hit, Fields(SetFields(DocById(S, c.hit), e)))
               THEN <<"conflict", <<>>, TRUE>>
          ELSE <<"updated", Append(c.tx, [op |-> "upd", id |-> c.hit, e |-> e]), FALSE>>
     ELSE \* no record found
          IF ~SchemaOkCreate(d, e) THEN <<"schema", c.tx, c.txDead>>
          ELSE IF c.txDead THEN <<"txaborted", c.tx, TRUE>>
          ELSE IF fault = "lost" THEN <<"infra", c.tx, FALSE>>
          ELSE IF fault = "dead" THEN <<"infra", <<>>, TRUE>>
          ELSE IF InsertConflicts(d, S, C, e) THEN <<"duplicate", <<>>, TRUE>>
          ELSE <<"created", Append(c.tx, [op |-> "ins", id |-> NoDoc, e |-> e]), FALSE>>

\* a bulk import whose writes leave out { session }
UsesSessionInCreateOnly(d, kind) == d # "gwpr" /\ kind = "single"

\* Whether the handler passes { session } to its writes. Every bulk import
\* and every single create does, except createGWPR, which opens no session:
\* its create is written at once.
UsesSession(d, kind) == ~(d = "gwpr" /\ kind = "single")

\* a loop that reports every row in errors[], the rows it wrote too
TallyAllFailed(d, res, i, r, out) == Failed(d, res, i, r, out)

\* the row's outcome in the result object
Tally(d, res, i, r, out) ==
  IF out = "created" THEN [res EXCEPT !.created = @ + 1]
  ELSE IF out = "updated" THEN [res EXCEPT !.updated = @ + 1]
  ELSE Failed(d, res, i, r, out)

\* ---- bulk import: update or create of row i inside the transaction ----
Write(w) ==
  LET c == call[w] IN
  /\ c.pc = "write"
  /\ c.kind = "bulk"
  /\ \E fault \in {"none", "lost", "dead"} :
       LET o == WriteOutcome(ds, store, call, w, fault)
           \* a write outside the session is applied at once
           direct == ~UsesSession(ds, "bulk") /\ Len(o[2]) > Len(c.tx)
           wr == <<o[2][Len(o[2])]>>
       IN /\ (fault # "none") => (~faulted /\ o[1] = "infra")
          /\ faulted' = (faulted \/ fault # "none")
          /\ store' = IF direct THEN ApplyTx(store, wr, nextId) ELSE store
          /\ nextId' = IF direct THEN nextId + CountIns(wr) ELSE nextId
          /\ call' = [call EXCEPT ![w] =
                        [c EXCEPT !.res = Tally(ds, c.res, c.i, c.batch[c.i], o[1]),
                                  !.rowOut = Append(@, o[1]),
                                  !.tx = IF direct THEN c.tx ELSE o[2],
                                  !.txDead = o[3],
                                  !.fault = @ \/ fault # "none",
                                  !.i = @ + 1,
                                  !.hit = NoDoc,
                                  !.pc = AfterRow(c)]]
  /\ UNCHANGED <<mapDb, resp, ds, strictQuery>>

\* ---- commitTransaction and the response ----
Commit(w) ==
  LET c == call[w] IN
  /\ c.pc = "commit"
  /\ \E fault \in BOOLEAN :
       /\ fault => ~faulted /\ ~c.txDead
       /\ faulted' = (faulted \/ fault)
       /\ IF c.txDead \/ fault
          THEN \* commit throws: outer catch, abortTransaction, error response
               /\ call' = [call EXCEPT ![w] =
                             [c EXCEPT !.pc = "done", !.outcome = "failure",
                                       !.tx = <<>>, !.txState = "aborted",
                                       !.end = store, !.fault = @ \/ fault]]
               /\ UNCHANGED <<store, nextId>>
          ELSE /\ store' = ApplyTx(store, c.tx, nextId)
               /\ nextId' = nextId + CountIns(c.tx)
               /\ call' = [call EXCEPT ![w] =
                             [c EXCEPT !.pc = "done", !.outcome = "result",
                                       !.end = store', !.txState = "committed"]]
  /\ UNCHANGED <<mapDb, resp, ds, strictQuery>>

\* ---- single-entity create ----
\* "ok" or the error of the checks before the existence lookup
SingleCheck(d, r) ==
  CASE d = "connections" ->
         IF r.p = Missing \/ r.q = Missing \/ r.y = NoYear THEN "missing"
         ELSE IF r.p = r.q THEN "self"
         ELSE IF FindProvince(r.p) = NoStr \/ FindProvince(r.q) = NoStr THEN "notfound"
         ELSE "ok"
    [] d = "gwpr" ->
         IF r.p = Missing \/ r.v = 0 \/ r.v = Absent THEN "missing" ELSE "ok"
    [] OTHER ->
         IF r.y = NoYear THEN "invalid"
         ELSE IF FindProvince(r.p) = NoStr THEN "notfound"
         ELSE "ok"

\* the filter of the single create's existence lookup
SingleMatches(d, doc, r) ==
  IF d = "gwpr" THEN doc.pid = Canon(r.p) /\ doc.v = r.v
  ELSE MatchesFilter(d, FALSE, doc, r)

\* an existence lookup that never finds the record
SingleFindNone(d, S, r) == NoDoc

SingleFindOne(d, S, r) ==
  LET hits == { doc.id : doc \in { x \in S : SingleMatches(d, x, r) } }
  IN IF hits = {} THEN NoDoc ELSE MinOf(hits)

StartSingle(w, r) ==
  /\ MayStart(w)
  /\ 1 + RowsInFlight <= MaxRows
  /\ call' = Arrive(w, [IdleCall EXCEPT
                !.kind = "single", !.batch = <<r>>, !.pc = "lookup",
                !.txState = IF UsesSession(ds, "single") THEN "active" ELSE "none"])
  /\ UNCHANGED <<mapDb, resp, ds, strictQuery, store, nextId, faulted>>

\* validation, province lookup and existence lookup of the single create
SingleLookup(w) ==
  LET c == call[w]
      r == c.batch[1]
      chk == SingleCheck(ds, r)
      hit == SingleFindOne(ds, store, r)
      \* createConnection and createGWPR answer with an early return; the
      \* other creates throw into the catch block, which aborts
      left == IF ds \in {"connections", "gwpr"} THEN c.txState ELSE "aborted"
  IN /\ c.pc = "lookup"
     /\ c.kind = "single"
     /\ call' = [call EXCEPT ![w] =
          IF chk # "ok"
          THEN [c EXCEPT !.pc = "done", !.outcome = chk, !.rowOut = <<chk>>, !.txState = left]
          ELSE IF hit # NoDoc /\ ds = "connections"
          THEN [c EXCEPT !.pc = "commit", !.hit = hit, !.rowOut = <<"updated">>]
          ELSE IF hit # NoDoc
          THEN [c EXCEPT !.pc = "done", !.outcome = "conflict", !.rowOut = <<"conflict">>,
                         !.txState = left]
          ELSE [c EXCEPT !.pc = "write"]]
     /\ UNCHANGED <<mapDb, resp, ds, strictQuery, store, nextId, faulted>>

\* Model.create of the single create
SingleWrite(w) ==
  LET c == call[w] IN
  /\ c.pc = "write"
  /\ c.kind = "single"
  /\ \E fault \in {"none", "lost", "dead"} :
       LET o == WriteOutcome(ds, store, call, w, fault)
       IN /\ (fault # "none") => (~faulted /\ o[1] = "infra")
          /\ faulted' = (faulted \/ fault # "none")
          /\ IF o[1] # "created"
             THEN \* create throws: catch block, abortTransaction, error response
                  /\ call' = [call EXCEPT ![w] =
                       [c EXCEPT !.pc = "done", !.outcome = o[1], !.rowOut = <<o[1]>>,
                                 !.tx = <<>>, !.fault = @ \/ fault # "none",
                                 !.txState = IF UsesSession(ds, "single") THEN "aborted" ELSE "none"]]
                  /\ UNCHANGED <<store, nextId>>
             ELSE IF UsesSession(ds, "single")
             THEN /\ call' = [call EXCEPT ![w] =
                       [c EXCEPT !.pc = "commit", !.tx = o[2], !.rowOut = <<"created">>]]
                  /\ UNCHANGED <<store, nextId>>
             ELSE /\ store' = ApplyTx(store, o[2], nextId)
                  /\ nextId' = nextId + 1
                  /\ call' = [call EXCEPT ![w] =
                       [c EXCEPT !.pc = "done", !.outcome = "result", !.rowOut = <<"created">>]]
  /\ UNCHANGED <<mapDb, resp, ds, strictQuery>>

\* ---- updateConnection ----
\* findById, save() of the unmodified document, commit
UpdateConnection(w, id) ==
  /\ ds = "connections"
  /\ MayStart(w)
  /\ call' = Arrive(w, [IdleCall EXCEPT
                !.kind = "update", !.txState = "active", !.hit = id,
                \* not found: 404 is an early return, the transaction stays open
                !.pc = IF \E doc \in store : doc.id = id THEN "commit" ELSE "done",
                !.outcome = IF \E doc \in store : doc.id = id THEN "none" ELSE "notfound"])
  /\ UNCHANGED <<mapDb, resp, ds, strictQuery, store, nextId, faulted>>

Next ==
  \/ \E w \in Workers : \E batch \in Batches(ds) : StartBulk(w, batch)
  \/ \E w \in Workers : Lookup(w)
  \/ \E w \in Workers : Write(w)
  \/ \E w \in Workers : Commit(w)
  \/ \E w \in Workers : \E r \in Rows(ds) : StartSingle(w, r)
  \/ \E w \in Workers : SingleLookup(w)
  \/ \E w \in Workers : SingleWrite(w)
  \/ \E w \in Workers : \E id \in 1..nextId : UpdateConnection(w, id)

Spec == Init /\ [][Next]_vars

\* ======================= vocabulary of the properties =======================

\* natural key of a request row: (province, year), for a connection
\* (source, target, year); ids compared as ObjectIds
RowKey(d, r) ==
  IF d = "connections" THEN <<Canon(r.p), Canon(r.q), r.y>> ELSE <<Canon(r.p), NoStr, r.y>>

ProvinceOfName(n) == IF n = NoStr THEN NoStr ELSE CHOOSE id \in Provinces : ProvinceName(id) = n

\* natural key that a stored document carries
DocKey(d, doc) ==
  IF d = "connections" THEN <<doc.pid, doc.q, doc.y>>
  ELSE IF d \in {"supplychain", "foodsecurity"} THEN <<ProvinceOfName(doc.name), NoStr, doc.y>>
  ELSE <<doc.pid, NoStr, doc.y>>

\* the stored records of natural key k; the GWPR schema keeps no year, so a
\* GWPR record of the province counts as the record of each of its years
WithKey(d, S, k) ==
  IF d = "gwpr" THEN { doc \in S : doc.pid = k[1] }
  ELSE { doc \in S : DocKey(d, doc) = k }

Occurrences(d, batch, k) == { i \in 1..Len(batch) : RowKey(d, batch[i]) = k }

\* the row satisfies the schema of its dataset type and names known provinces
StructValid(d, r) ==
  /\ r.p # Missing /\ FindProvince(r.p) # NoStr
  /\ CASE d = "connections" ->
            r.q # Missing /\ FindProvince(r.q) # NoStr /\ Canon(r.p) # Canon(r.q) /\ r.y # NoYear
       [] d = "supplychain" -> YearOk(d, r.y) /\ r.v # Absent
       [] d = "foodsecurity" -> YearOk(d, r.y) /\ r.v >= 0 /\ r.v <= MaxIndeks
       [] d = "gwpr" -> YearOk(d, r.y) /\ r.v >= MinKelompok
       [] OTHER -> YearOk(d, r.y) /\ r.v >= MinClusterId

\* the data a stored document holds, without its generated _id
Contents(S) == { Fields(doc) : doc \in S }

BulkDone(w) == call[w].kind = "bulk" /\ call[w].pc = "done" /\ call[w].batch # <<>>

Returned(w) == call[w].outcome = "result"

\* the call ran alone and met no infrastructure failure
Clean(w) == ~call[w].overlap /\ ~call[w].fault

\* ============================== the properties ==============================

\* C1: in a bulk import that runs alone, every structurally valid row whose
\* natural key is absent from the store at the start of the call and occurs
\* once in the batch is counted created, and the call persists exactly one
\* record with that key.
C1_FreshRowCreatedOnce ==
  \A w \in Workers :
    (BulkDone(w) /\ Clean(w)) =>
      \A i \in 1..Len(call[w].batch) :
        LET r == call[w].batch[i]
            k == RowKey(ds, r)
        IN (/\ StructValid(ds, r)
            /\ WithKey(ds, call[w].start, k) = {}
            /\ Cardinality(Occurrences(ds, call[w].batch, k)) = 1)
           => /\ Returned(w)
              /\ call[w].rowOut[i] = "created"
              /\ Cardinality(WithKey(ds, call[w].end, k)) = 1

\* C2: in a bulk import that runs alone, every structurally valid row whose
\* natural key exists at the start of the call is counted updated, the
\* existing record is the one that is written, and the number of records
\* with that key is the same after the call as before.
C2_ExistingRowUpdatedInPlace ==
  \A w \in Workers :
    (BulkDone(w) /\ Clean(w)) =>
      \A i \in 1..Len(call[w].batch) :
        LET r == call[w].batch[i]
            k == RowKey(ds, r)
            before == WithKey(ds, call[w].start, k)
            after == WithKey(ds, call[w].end, k)
        IN (StructValid(ds, r) /\ before # {})
           => /\ Returned(w)
              /\ call[w].rowOut[i] = "updated"
              /\ { doc.id : doc \in after } = { doc.id : doc \in before }

\* the batch holds only structurally valid rows with pairwise distinct keys
DistinctValid(d, batch) ==
  /\ \A i \in 1..Len(batch) : StructValid(d, batch[i])
  /\ \A i, j \in 1..Len(batch) : RowKey(d, batch[i]) = RowKey(d, batch[j]) => i = j

\* C3: the same batch of N valid rows with distinct fresh keys submitted twice
\* in sequence: the first call reports created = N, updated = 0, the second
\* created = 0, updated = N, and the persisted data after the second call
\* equals the persisted data after the first.
C3_BulkImportIdempotent ==
  (/\ BulkDone(1) /\ BulkDone(2) /\ Clean(1) /\ Clean(2)
   /\ call[1].batch = call[2].batch
   /\ DistinctValid(ds, call[1].batch)
   /\ call[1].start = {})
  => /\ Returned(1) /\ Returned(2)
     /\ call[1].res.created = Len(call[1].batch) /\ call[1].res.updated = 0
     /\ call[2].res.created = 0 /\ call[2].res.updated = Len(call[2].batch)
     /\ Contents(call[2].end) = Contents(call[1].end)

\* C4: in every reachable state, whatever the interleaving of bulk imports and
\* single creates, no two stored records carry the same natural key.
C4_OneRecordPerKey ==
  \A d1, d2 \in store : DocKey(ds, d1) = DocKey(ds, d2) => d1.id = d2.id

\* row i of call w lost a race: its key occurs once in its own batch, the
\* overlapping request submitted the same key, and the create of the row was
\* refused by the uniqueness constraint
LostRace(w, i) ==
  LET k == RowKey(ds, call[w].batch[i])
  IN /\ call[w].rowOut[i] = "duplicate"
     /\ Cardinality(Occurrences(ds, call[w].batch, k)) = 1
     /\ \E o \in Workers \ {w} : Occurrences(ds, call[o].batch, k) # {}

\* C5: a bulk import that overlaps another request and whose create of a row
\* is refused by the uniqueness constraint still returns its result: that row
\* is tallied failed, and every other row it counted created or updated is
\* persisted when the call ends.
C5_RaceLoserStillReturns ==
  \A w \in Workers :
    (/\ BulkDone(w) /\ call[w].overlap /\ ~call[w].fault
     /\ \E i \in 1..Len(call[w].rowOut) : LostRace(w, i))
    => /\ Returned(w)
       /\ call[w].res.failed >= 1
       /\ \A j \in 1..Len(call[w].rowOut) :
            call[w].rowOut[j] \in {"created", "updated"}
              => WithKey(ds, call[w].end, RowKey(ds, call[w].batch[j])) # {}

\* C6: a bulk import in which the persisting of a row met a storage or
\* infrastructure failure ends with the failure outcome, not with a result
\* that tallies the row as failed, and it has persisted nothing.
C6_StorageFailureAbortsCall ==
  \A w \in Workers :
    (BulkDone(w) /\ \E i \in 1..Len(call[w].rowOut) : call[w].rowOut[i] = "infra")
    => /\ call[w].outcome = "failure"
       /\ (~call[w].overlap => call[w].end = call[w].start)

\* the dataset types whose bulk import is specified to be atomically visible
AtomicDatasets == {"connections", "supplychain", "foodsecurity"}

\* the last write of tx that touches document id is tx[k]
LastUpdateOf(tx, k) ==
  tx[k].op = "upd" /\ \A j \in (k + 1)..Len(tx) : ~(tx[j].op = "upd" /\ tx[j].id = tx[k].id)

\* going from store S1 to S2 makes every write of tx visible and nothing else
AllVisible(S1, S2, tx) ==
  LET old == { doc.id : doc \in S1 }
      new == { doc \in S2 : doc.id \notin old }
      touched == { tx[k].id : k \in { j \in 1..Len(tx) : tx[j].op = "upd" } }
  IN /\ Cardinality(new) = CountIns(tx)
     /\ \A k \in 1..Len(tx) :
          tx[k].op = "ins" => \E doc \in new : Fields(doc) = tx[k].e
     /\ \A k \in 1..Len(tx) :
          LastUpdateOf(tx, k) =>
            \E doc \in S2 : doc.id = tx[k].id /\ doc = SetFields(doc, tx[k].e)
     /\ \A doc \in S1 : doc.id \notin touched => doc \in S2
     /\ { doc.id : doc \in S2 } = old \cup { doc.id : doc \in new }

\* C7: for connections, supply chain and food security the store changes
\* only in the commit step of one call, and that one step makes visible every
\* write of the call together: as many new records as the bulk import reports
\* created and the update of every record it reports updated. No reader sees
\* some of a call's reported rows without the others.
C7_AtomicVisibility ==
  [][ (ds \in AtomicDatasets /\ store' # store) =>
        \E w \in Workers :
          /\ call[w].pc = "commit"
          /\ call'[w].pc = "done" /\ call'[w].outcome = "result"
          /\ AllVisible(store, store', call[w].tx)
          /\ (call[w].kind = "bulk" => CountIns(call[w].tx) = call[w].res.created)
          /\ (call[w].kind = "bulk" /\ ds # "connections"
                => Len(call[w].tx) - CountIns(call[w].tx) = call[w].res.updated) ]_vars

\* a bulk import of one of these types has returned a result reporting two
\* written rows, at least one of them created
C7_Witness ==
  \E w \in Workers :
    /\ ds \in AtomicDatasets
    /\ BulkDone(w) /\ Returned(w)
    /\ call[w].res.created + call[w].res.updated = 2
    /\ call[w].res.created >= 1
    /\ call[w].end # call[w].start

\* the row cannot be stored under any state of the store: a province or the
\* year is missing, a province is unknown, the year or the payload is out of
\* range, or source and target are the same province
BadRow(d, r) ==
  \/ r.p = Missing \/ FindProvince(r.p) = NoStr
  \/ r.y = NoYear
  \/ d = "connections" /\ (r.q = Missing \/ FindProvince(r.q) = NoStr \/ Canon(r.p) = Canon(r.q))
  \/ d # "connections" /\ ~YearOk(d, r.y)
  \/ d = "foodsecurity" /\ (r.v < 0 \/ r.v > MaxIndeks)
  \/ d = "gwpr" /\ r.v < MinKelompok
  \/ d = "clustering" /\ r.v < MinClusterId

\* the only defect of the row is that it names a province that does not exist
UnknownProvinceOnly(d, r) ==
  /\ r.p # Missing /\ r.y # NoYear
  /\ d = "connections" => (r.q # Missing /\ r.p # r.q)
  /\ d # "connections" => YearOk(d, r.y)
  /\ d = "foodsecurity" => (r.v > 0 /\ r.v <= MaxIndeks)
  /\ d = "gwpr" => r.v >= MinKelompok
  /\ d = "clustering" => r.v >= MinClusterId
  /\ \/ FindProvince(r.p) = NoStr
     \/ d = "connections" /\ FindProvince(r.q) = NoStr

\* C8: the step in which a bulk import finishes a bad row adds one to failed
\* and appends one error entry that carries the row and a message (the
\* not-found message when the province does not exist), and it changes
\* nothing else that the other rows depend on: created, updated, the
\* transaction and its writes, and the store stay as they are, so the other
\* rows end as they would without the bad row.
C8_BadRowIsSoftFailure ==
  [][ \A w \in Workers :
        (/\ call[w].kind = "bulk" /\ call[w].pc \in {"lookup", "write"}
         /\ call'[w].i = call[w].i + 1
         /\ BadRow(ds, call[w].batch[call[w].i]))
        => LET c == call[w]
               c2 == call'[w]
               r == c.batch[c.i]
               n == Len(c2.res.errors)
           IN /\ c2.res.failed = c.res.failed + 1
              /\ c2.res.created = c.res.created /\ c2.res.updated = c.res.updated
              /\ n = Len(c.res.errors) + 1
              /\ c2.res.errors[n].row = r
              /\ c2.res.errors[n].error \in {"missing", "invalid", "self", "notfound", "schema"}
              /\ (UnknownProvinceOnly(ds, r) => c2.res.errors[n].error = "notfound")
              /\ c2.tx = c.tx /\ c2.txDead = c.txDead
              /\ c2.pc \in {"lookup", "commit"}
              /\ store' = store ]_vars

\* a bulk import has returned a result in which a row naming an unknown
\* province is tallied failed and another row is counted created and stored
C8_Witness ==
  \E w \in Workers :
    /\ BulkDone(w) /\ Returned(w)
    /\ \E i, j \in 1..Len(call[w].rowOut) :
         /\ call[w].rowOut[i] = "notfound" /\ BadRow(ds, call[w].batch[i])
         /\ call[w].rowOut[j] = "created"
         /\ WithKey(ds, store, RowKey(ds, call[w].batch[j])) # {}
    /\ call[w].res.failed = 1 /\ Len(call[w].res.errors) = 1

\* C9: no stored connection has the same province as source and as target,
\* whichever of createConnection, bulkImportConnections and updateConnection
\* ran and however the ids were spelled in the requests.
C9_NoSelfConnection ==
  ds = "connections" => \A doc \in store : doc.pid # doc.q

\* a request named one province as source and target under two spellings,
\* passed the handler's string comparison and was refused by the model hook,
\* while another connection is stored
C9_Witness ==
  /\ ds = "connections"
  /\ store # {}
  /\ \E w \in Workers :
       /\ call[w].pc = "done"
       /\ \E i \in 1..Len(call[w].rowOut) :
            /\ call[w].batch[i] = Row("A", "a", 2020, 0)
            /\ call[w].rowOut[i] = "schema"

\* C10: the result a bulk import returns satisfies totalProcessed = number of
\* submitted rows, created + updated + failed = totalProcessed and
\* failed = length of errors.
C10_ResultAccounting ==
  \A w \in Workers :
    (BulkDone(w) /\ Returned(w)) =>
      /\ call[w].res.processed = Len(call[w].batch)
      /\ call[w].res.created + call[w].res.updated + call[w].res.failed = call[w].res.processed
      /\ call[w].res.failed = Len(call[w].res.errors)

\* the positions of the rows of call w that were neither created nor updated
FailedPositions(w) ==
  { i \in 1..Len(call[w].rowOut) : call[w].rowOut[i] \notin {"created", "updated"} }

\* C11: in the result a bulk import returns, errors[] has one entry per failed
\* row, in input order, and each entry carries the 1-based position of its row
\* in the batch, the row itself and the error message.
C11_ErrorsCarryPosition ==
  \A w \in Workers :
    (BulkDone(w) /\ Returned(w)) =>
      LET errs == call[w].res.errors
      IN /\ Len(errs) = Cardinality(FailedPositions(w))
         /\ \A k \in 1..Len(errs) :
              /\ errs[k].index \in FailedPositions(w)
              /\ errs[k].row = call[w].batch[errs[k].index]
              /\ errs[k].error = call[w].rowOut[errs[k].index]
         /\ \A k, l \in 1..Len(errs) : k < l => errs[k].index < errs[l].index

\* ============================ map composition ============================
\* The four handlers of map.controller.js, each a read-only function of the
\* Province, FoodSecurity, SupplyChain and ProvinceConnection collections.

MapModes == {"food-security", "supply-chain", "connections", "combined"}

\* the Province collection of the map requests
MapProvinces == {"a", "b", "c"}

\* a province query that forgets the geoData filter
FindAllProvinces(db) == MapProvinces

\* Province.find({ geoData: { $exists: true, $ne: null } })
ProvincesWithGeoData(db) == db.geo

\* the :year parameter of a map request
MapYears == {1999, 2020, 2021, 2022}

\* a supply chain document with its konsumsiBeras (v is its produksiBeras)
WithKonsumsi(doc, c) ==
  [id |-> doc.id, pid |-> doc.pid, name |-> doc.name, q |-> doc.q, y |-> doc.y,
   v |-> doc.v, c |-> c]

\* the ?condition query parameter of the supply chain map; NoStr when absent
Conditions == {NoStr, "surplus", "deficit", "balanced"}

\* documents the collections may hold; the supply chain collection can hold
\* two records of one province and year (its index is not unique); it holds
\* a balanced, a surplus and a deficit record
FoodSecurityPool ==
  { WithId(Entry("foodsecurity", Row("a", NoStr, 2020, 40)), 1),
    WithId(Entry("foodsecurity", Row("b", NoStr, 2020, 80)), 2),
    WithId(Entry("foodsecurity", Row("a", NoStr, 2021, 40)), 3) }

SupplyChainPool ==
  { WithKonsumsi(WithId(Entry("supplychain", Row("a", NoStr, 2020, 1)), 1), 1),
    WithKonsumsi(WithId(Entry("supplychain", Row("a", NoStr, 2020, 2)), 2), 1),
    WithKonsumsi(WithId(Entry("supplychain", Row("b", NoStr, 2021, 1)), 3), 2) }

ConnectionPool ==
  { WithId(Entry("connections", Row("a", "b", 2020, 0)), 1),
    WithId(Entry("connections", Row("b", "a", 2020, 0)), 2),
    WithId(Entry("connections", Row("a", "c", 2020, 0)), 3),
    WithId(Entry("connections", Row("a", "b", 2021, 0)), 4) }

\* Model.find({ tahun: yearInt }) / find({ year: yearInt })
FindByYear(S, y) == { doc \in S : doc.y = y }

\* Model.distinct('tahun')
DistinctYears(S) == { doc.y : doc \in S }

MaxOf(S) == CHOOSE x \in S : \A z \in S : x >= z

\* map[item.provinsi] = item over the found documents in _id order: the last
\* document of a province stays; NoDoc when the province has none
LookupByName(found, name) ==
  LET ids == { doc.id : doc \in { x \in found : x.name = name } }
  IN IF ids = {} THEN NoDoc ELSE MaxOf(ids)

\* a feature: the province, the year, the names of the optional properties
\* it carries (has) and their values
Feature(p, y, has, fsIndex, produksi, konsumsi, balanceType, out, inc, tot, uniq) ==
  [provinceId |-> p, provinceName |-> ProvinceName(p), year |-> y, has |-> has,
   foodSecurityIndex |-> fsIndex, produksiBeras |-> produksi,
   konsumsiBeras |-> konsumsi, balanceType |-> balanceType,
   outgoingConnections |-> out, incomingConnections |-> inc,
   totalConnections |-> tot, uniqueConnections |-> uniq]

YearParamOk(y) == y >= MinYear /\ y <= MaxYear

BadYear(mode, y) == Response("badrequest", mode, y, {}, {}, NoMetadata, {}, {})

getFoodSecurityMapData(db, y) ==
  LET foodSecurityData == FindByYear(db.fs, y)
      matched == { p \in ProvincesWithGeoData(db) :
                     LookupByName(foodSecurityData, ProvinceName(p)) # NoDoc }
      features ==
        { Feature(p, y, {"foodSecurityIndex"},
                  DocById(foodSecurityData, LookupByName(foodSecurityData, ProvinceName(p))).v,
                  NoField, NoField, NoStr, NoField, NoField, NoField, NoField) : p \in matched }
  IN IF ~YearParamOk(y) THEN BadYear("food-security", y)
     ELSE IF foodSecurityData = {}
     THEN Response("notfound", "food-security", y, {}, {}, NoMetadata, {}, {})
     ELSE Response("ok", "food-security", y, features, {},
                   Metadata(Cardinality(features), NoField, NoField, NoField, NoField),
                   {}, {})

\* $expr of the condition filter over the stored fields
MatchesCondition(doc, condition) ==
  CASE condition = "surplus" -> doc.v > doc.c
    [] condition = "deficit" -> doc.v < doc.c
    [] condition = "balanced" -> doc.v = doc.c
    [] OTHER -> TRUE

\* balance > 0 ? 'surplus' : balance < 0 ? 'deficit' : 'balanced'
BalanceOfDifference(production, consumption) ==
  IF production - consumption > 0 THEN "surplus"
  ELSE IF production - consumption < 0 THEN "deficit"
  ELSE "balanced"

\* production > consumption ? 'surplus' : production < consumption ? 'deficit' : 'balanced'
BalanceOfComparison(production, consumption) ==
  IF production > consumption THEN "surplus"
  ELSE IF production < consumption THEN "deficit"
  ELSE "balanced"

getSupplyChainMapData(db, y, condition) ==
  LET supplyChainData == { doc \in FindByYear(db.sc, y) : MatchesCondition(doc, condition) }
      matched == { p \in ProvincesWithGeoData(db) :
                     LookupByName(supplyChainData, ProvinceName(p)) # NoDoc }
      scData(p) == DocById(supplyChainData, LookupByName(supplyChainData, ProvinceName(p)))
      features ==
        { Feature(p, y, {"produksiBeras"}, NoField, scData(p).v, scData(p).c,
                  BalanceOfDifference(scData(p).v, scData(p).c),
                  NoField, NoField, NoField, NoField) : p \in matched }
  IN IF ~YearParamOk(y) THEN BadYear("supply-chain", y)
     ELSE IF supplyChainData = {}
     THEN Response("notfound", "supply-chain", y, {}, {}, NoMetadata,
                   {"availableYears"}, DistinctYears(db.sc))
     ELSE Response("ok", "supply-chain", y, features, {},
                   Metadata(Cardinality(features), Cardinality(supplyChainData),
                            NoField, NoField, NoField),
                   {}, {})

\* connectedProvinces that only collects the targets of outgoing connections
ConnectedTargets(connections, name) ==
  { ProvinceName(c.q) : c \in { x \in connections : ProvinceName(x.pid) = name } }

\* provinceStats[name].connectedProvinces: the names at the other end of the
\* connections of the province
ConnectedProvinces(connections, name) ==
  { ProvinceName(c.q) : c \in { x \in connections : ProvinceName(x.pid) = name } }
    \cup { ProvinceName(c.pid) : c \in { x \in connections : ProvinceName(x.q) = name } }

\* a connection line: the connection's id, its endpoints and its year
ConnectionLine(conn) ==
  [connectionId |-> conn.id, source |-> conn.pid, target |-> conn.q, year |-> conn.y]

getConnectionsMapData(db, y) ==
  LET connections == FindByYear(db.conn, y)
      \* provinceStats starts with an all-zero entry for every province with geoData
      outgoing(p) ==
        Cardinality({ c \in connections : ProvinceName(c.pid) = ProvinceName(p) })
      incoming(p) ==
        Cardinality({ c \in connections : ProvinceName(c.q) = ProvinceName(p) })
      features ==
        { Feature(p, y, {"connections"}, NoField, NoField, NoField, NoStr,
                  outgoing(p), incoming(p), outgoing(p) + incoming(p),
                  Cardinality(ConnectedProvinces(connections, ProvinceName(p)))) :
            p \in ProvincesWithGeoData(db) }
      connectionLines ==
        { ConnectionLine(c) : c \in { x \in connections : x.pid \in db.geo /\ x.q \in db.geo } }
  IN IF ~YearParamOk(y) THEN BadYear("connections", y)
     ELSE IF connections = {}
     THEN Response("notfound", "connections", y, {}, {}, NoMetadata, {}, {})
     ELSE Response("ok", "connections", y, features, connectionLines,
                   Metadata(Cardinality(features), NoField, Cardinality(connections),
                            NoField, NoField),
                   {"connections"}, {})

\* a filter that keeps only the provinces found in both datasets
InBothDatasets(fsId, scId) == fsId # NoDoc /\ scId # NoDoc

\* .filter(province => foodSecurityMap[province.name] || supplyChainMap[province.name])
InEitherDataset(fsId, scId) == fsId # NoDoc \/ scId # NoDoc

getCombinedMapData(db, y) ==
  LET foodSecurityData == FindByYear(db.fs, y)
      supplyChainData == FindByYear(db.sc, y)
      fsId(p) == LookupByName(foodSecurityData, ProvinceName(p))
      scId(p) == LookupByName(supplyChainData, ProvinceName(p))
      matched == { p \in ProvincesWithGeoData(db) : InEitherDataset(fsId(p), scId(p)) }
      features ==
        { Feature(p, y,
                  (IF fsId(p) # NoDoc THEN {"foodSecurity"} ELSE {})
                    \cup (IF scId(p) # NoDoc THEN {"supplyChain"} ELSE {}),
                  IF fsId(p) # NoDoc THEN DocById(foodSecurityData, fsId(p)).v ELSE NoField,
                  IF scId(p) # NoDoc THEN DocById(supplyChainData, scId(p)).v ELSE NoField,
                  IF scId(p) # NoDoc THEN DocById(supplyChainData, scId(p)).c ELSE NoField,
                  IF scId(p) # NoDoc
                  THEN BalanceOfComparison(DocById(supplyChainData, scId(p)).v,
                                           DocById(supplyChainData, scId(p)).c)
                  ELSE NoStr,
                  NoField, NoField, NoField, NoField) : p \in matched }
  IN IF ~YearParamOk(y) THEN BadYear("combined", y)
     ELSE Response("ok", "combined", y, features, {},
                   Metadata(Cardinality(features), NoField, NoField,
                            Cardinality(foodSecurityData), Cardinality(supplyChainData)),
                   {}, {})

ComposeMap(mode, db, y, condition) ==
  CASE mode = "food-security" -> getFoodSecurityMapData(db, y)
    [] mode = "supply-chain" -> getSupplyChainMapData(db, y, condition)
    [] mode = "connections" -> getConnectionsMapData(db, y)
    [] OTHER -> getCombinedMapData(db, y)

\* the collections as a map request finds them
MapInit ==
  /\ mapDb \in [geo : SUBSET MapProvinces, fs : SUBSET FoodSecurityPool,
                sc : SUBSET SupplyChainPool, conn : SUBSET ConnectionPool]
  /\ resp = NoResp
  /\ ds = "connections"
  /\ strictQuery = FALSE
  /\ store = {}
  /\ nextId = 1
  /\ call = [w \in Workers |-> IdleCall]
  /\ faulted = FALSE

\* GET /api/v1/map/<mode>/:year, the supply chain map with ?condition
MapRequest(mode, y, condition) ==
  /\ resp' = ComposeMap(mode, mapDb, y, condition)
  /\ UNCHANGED <<mapDb, ds, strictQuery, store, nextId, call, faulted>>

MapNext ==
  \E mode \in MapModes : \E y \in MapYears : \E condition \in Conditions :
    MapRequest(mode, y, condition)

MapSpec == MapInit /\ [][MapNext]_vars

\* ---- the per-province views of the map ----
\* the :id parameter of a province view; "z" names no province
ProvinceIds == MapProvinces \cup {"z"}

\* the ?year parameter of a province view; NoYear when absent
ViewYears == MapYears \cup {NoYear}

\* one supply chain entry of a province view
SupplyChainEntry(y, production, consumption, balanceType) ==
  [year |-> y, production |-> production, consumption |-> consumption,
   balanceType |-> balanceType]

\* the response of a province view: the supply chain entries it reports, the
\* food security indexes by year and the number of connections
ProvinceResponse(status, mode, p, y, supplyChain, foodSecurity, totalConnections) ==
  [status |-> status, mode |-> mode, provinceId |-> p, year |-> y,
   supplyChain |-> supplyChain, foodSecurity |-> foodSecurity,
   totalConnections |-> totalConnections]

\* find({ provinsi: province.name, ...yearQuery })
FindByProvince(S, p, y) ==
  { doc \in S : doc.name = ProvinceName(p) /\ (y = NoYear \/ doc.y = y) }

\* the documents that .sort({ tahun: -1 }) may put first: the order of the
\* documents of one year is not determined
Latest(found) == { doc \in found : \A o \in found : doc.y >= o.y }

ConnectionsOf(conns, p, y) ==
  Cardinality({ c \in conns : c.pid = p /\ (y = NoYear \/ c.y = y) })
    + Cardinality({ c \in conns : c.q = p /\ (y = NoYear \/ c.y = y) })

\* GET /province/:id/details; firstFs and firstSc are the documents the sort
\* puts first (NoDoc when nothing is found)
getProvinceMapDetails(db, p, y, firstFs, firstSc) ==
  LET foodSecurityData == FindByProvince(db.fs, p, y)
      supplyChainData == FindByProvince(db.sc, p, y)
      total == ConnectionsOf(db.conn, p, y)
  IN IF p \notin MapProvinces
     THEN ProvinceResponse("notfound", "details", p, y, {}, {}, NoField)
     ELSE IF y # NoYear /\ ~YearParamOk(y)
     THEN ProvinceResponse("badrequest", "details", p, y, {}, {}, NoField)
     ELSE IF y # NoYear
     THEN \* single year: the first document as it is stored, without balanceType
          ProvinceResponse("ok", "details", p, y,
            IF supplyChainData = {} THEN {}
            ELSE {SupplyChainEntry(firstSc.y, firstSc.v, firstSc.c, NoStr)},
            IF foodSecurityData = {} THEN {} ELSE {<<firstFs.y, firstFs.v>>},
            total)
     ELSE \* all years: the trend
          ProvinceResponse("ok", "details", p, y,
            { SupplyChainEntry(item.y, item.v, item.c, BalanceOfComparison(item.v, item.c)) :
                item \in supplyChainData },
            { <<item.y, item.v>> : item \in foodSecurityData },
            total)

\* balance > 0 ? 'surplus' : 'deficit'
BalanceOfSummary(production, consumption) ==
  IF production - consumption > 0 THEN "surplus" ELSE "deficit"

\* GET /province/:id/summary; a year outside 2000..2100 does not filter the
\* records but does filter the connections
getProvinceMapSummary(db, p, y, firstFs, firstSc) ==
  LET yearQuery == IF y # NoYear /\ YearParamOk(y) THEN y ELSE NoYear
      latestFoodSecurity == FindByProvince(db.fs, p, yearQuery)
      latestSupplyChain == FindByProvince(db.sc, p, yearQuery)
  IN IF p \notin MapProvinces
     THEN ProvinceResponse("notfound", "summary", p, y, {}, {}, NoField)
     ELSE ProvinceResponse("ok", "summary", p,
            IF y # NoYear THEN y
            ELSE IF latestFoodSecurity # {} THEN firstFs.y
            ELSE IF latestSupplyChain # {} THEN firstSc.y
            ELSE NoYear,
            IF latestSupplyChain = {} THEN {}
            ELSE {SupplyChainEntry(firstSc.y, firstSc.v, firstSc.c,
                                   BalanceOfSummary(firstSc.v, firstSc.c))},
            IF latestFoodSecurity = {} THEN {} ELSE {<<firstFs.y, firstFs.v>>},
            ConnectionsOf(db.conn, p, y))

\* the documents a sorted query may return first, or NoDoc for none
FirstOf(found) == IF found = {} THEN {NoDoc} ELSE Latest(found)

ProvinceViewInit ==
  /\ mapDb \in [geo : SUBSET MapProvinces, fs : SUBSET FoodSecurityPool,
                sc : SUBSET SupplyChainPool, conn : {{}, ConnectionPool}]
  /\ resp = NoResp
  /\ ds = "supplychain"
  /\ strictQuery = FALSE
  /\ store = {}
  /\ nextId = 1
  /\ call = [w \in Workers |-> IdleCall]
  /\ faulted = FALSE

ProvinceDetails(p, y) ==
  /\ \E firstFs \in FirstOf(FindByProvince(mapDb.fs, p, y)) :
       \E firstSc \in FirstOf(FindByProvince(mapDb.sc, p, y)) :
         resp' = getProvinceMapDetails(mapDb, p, y, firstFs, firstSc)
  /\ UNCHANGED <<mapDb, ds, strictQuery, store, nextId, call, faulted>>

ProvinceSummary(p, y) ==
  /\ LET yearQuery == IF y # NoYear /\ YearParamOk(y) THEN y ELSE NoYear
     IN \E firstFs \in FirstOf(FindByProvince(mapDb.fs, p, yearQuery)) :
          \E firstSc \in FirstOf(FindByProvince(mapDb.sc, p, yearQuery)) :
            resp' = getProvinceMapSummary(mapDb, p, y, firstFs, firstSc)
  /\ UNCHANGED <<mapDb, ds, strictQuery, store, nextId, call, faulted>>

ProvinceViewNext ==
  \/ \E mode \in {"supply-chain", "combined"} : \E y \in MapYears :
       \E condition \in Conditions : MapRequest(mode, y, condition)
  \/ \E p \in ProvinceIds : \E y \in ViewYears : ProvinceDetails(p, y)
  \/ \E p \in ProvinceIds : \E y \in ViewYears : ProvinceSummary(p, y)

ProvinceViewSpec == ProvinceViewInit /\ [][ProvinceViewNext]_vars

\* ---- vocabulary of the map properties ----
\* province p has a fact row of year y in the dataset(s) of the mode
HasFoodSecurity(p, y) == \E doc \in mapDb.fs : doc.y = y /\ doc.name = ProvinceName(p)

HasSupplyChain(p, y) == \E doc \in mapDb.sc : doc.y = y /\ doc.name = ProvinceName(p)

HasConnection(p, y) == \E c \in mapDb.conn : c.y = y /\ (c.pid = p \/ c.q = p)

HasFactRow(mode, p, y) ==
  CASE mode = "food-security" -> HasFoodSecurity(p, y)
    [] mode = "supply-chain" -> HasSupplyChain(p, y)
    [] mode = "connections" -> HasConnection(p, y)
    [] OTHER -> HasFoodSecurity(p, y) \/ HasSupplyChain(p, y)

\* the collection a single-dataset mode reads
DatasetOf(mode) ==
  CASE mode = "food-security" -> mapDb.fs
    [] mode = "supply-chain" -> mapDb.sc
    [] mode = "connections" -> mapDb.conn
    [] OTHER -> mapDb.fs \cup mapDb.sc

\* the map request was served with a feature collection
MapOk == resp.status = "ok" /\ resp.mode \in MapModes

\* C12: no feature of a map response belongs to a province without geometry,
\* whatever the dataset selector and the year, even when the province has a
\* matching fact row.
C12_NoFeatureWithoutGeometry ==
  MapOk => \A f \in resp.features : f.provinceId \in mapDb.geo

\* a feature was emitted for a province with a fact row while another
\* province has a fact row of the requested year and no geometry
C12_Witness ==
  /\ MapOk
  /\ \E f \in resp.features : HasFactRow(resp.mode, f.provinceId, resp.year)
  /\ \E p \in MapProvinces \ mapDb.geo : HasFactRow(resp.mode, p, resp.year)

\* C13: every feature of a map response belongs to a province that has a
\* fact row of the requested year (in connections mode: a connection as
\* source or target); no province is emitted zero-filled.
C13_NoFeatureWithoutFactRow ==
  MapOk => \A f \in resp.features : HasFactRow(resp.mode, f.provinceId, resp.year)

\* C14: a map request for a valid year in which the selected dataset(s) hold
\* no fact row is answered NotFound, not with a feature collection.
C14_NoDataIsNotFound ==
  (/\ resp.mode \in MapModes
   /\ resp.status # "badrequest"
   /\ \A p \in MapProvinces : ~HasFactRow(resp.mode, p, resp.year))
  => resp.status = "notfound"

\* C15: the NotFound answer of a map request carries availableYears, equal to
\* the set of years in which the dataset holds at least one row.
C15_NotFoundCarriesAvailableYears ==
  (resp.mode \in MapModes /\ resp.status = "notfound")
  => /\ "availableYears" \in resp.keys
     /\ resp.availableYears = { doc.y : doc \in DatasetOf(resp.mode) }

\* C16: combined mode emits a feature for a province exactly when the
\* province has geometry and a food-security row or a supply-chain row of the
\* year; the feature carries the sub-object of each dataset the province is in
\* and does not carry the other sub-object.
C16_CombinedIsUnion ==
  (MapOk /\ resp.mode = "combined") =>
    /\ \A p \in MapProvinces :
         (p \in mapDb.geo /\ (HasFoodSecurity(p, resp.year) \/ HasSupplyChain(p, resp.year)))
           <=> (\E f \in resp.features : f.provinceId = p)
    /\ \A f \in resp.features :
         /\ ("foodSecurity" \in f.has) <=> HasFoodSecurity(f.provinceId, resp.year)
         /\ ("supplyChain" \in f.has) <=> HasSupplyChain(f.provinceId, resp.year)
         /\ ("foodSecurity" \notin f.has) => f.foodSecurityIndex = NoField
         /\ ("supplyChain" \notin f.has) => f.produksiBeras = NoField
    /\ \A f, g \in resp.features : f.provinceId = g.provinceId => f = g

\* a combined response with a province that is in the food-security dataset
\* only and a province that is in the supply-chain dataset only
C16_Witness ==
  /\ MapOk /\ resp.mode = "combined"
  /\ \E f, g \in resp.features : f.has = {"foodSecurity"} /\ g.has = {"supplyChain"}

\* C17: in connections mode every node feature of province P carries the
\* number of stored connections of the year with source P, the number with
\* target P, their sum, and the number of distinct provinces at the other end;
\* the edges come in a separate list, each with its source, target and year.
C17_ConnectionDegrees ==
  (MapOk /\ resp.mode = "connections") =>
    LET ofYear == { c \in mapDb.conn : c.y = resp.year }
    IN /\ \A f \in resp.features :
            LET p == f.provinceId
                out == { c \in ofYear : c.pid = p }
                inc == { c \in ofYear : c.q = p }
                others == { c.q : c \in out } \cup { c.pid : c \in inc }
            IN /\ f.outgoingConnections = Cardinality(out)
               /\ f.incomingConnections = Cardinality(inc)
               /\ f.totalConnections = Cardinality(out) + Cardinality(inc)
               /\ f.uniqueConnections = Cardinality(others)
       /\ "connections" \in resp.keys
       /\ \A l \in resp.connections :
            \E c \in ofYear : l.connectionId = c.id /\ l.source = c.pid
                              /\ l.target = c.q /\ l.year = c.y
       /\ \A c \in ofYear :
            (c.pid \in mapDb.geo /\ c.q \in mapDb.geo)
              => \E l \in resp.connections : l.connectionId = c.id

\* a connections response in which a province has outgoing and incoming
\* connections and fewer neighbours than connections
C17_Witness ==
  /\ MapOk /\ resp.mode = "connections"
  /\ resp.connections # {}
  /\ \E f \in resp.features :
       /\ f.outgoingConnections >= 1 /\ f.incomingConnections >= 1
       /\ f.uniqueConnections >= 1
       /\ f.uniqueConnections < f.totalConnections

\* the number of matching fact rows a response reports in its metadata,
\* NoField when it reports none
ReportedFactRows(r) ==
  CASE r.mode = "food-security" -> NoField
    [] r.mode = "supply-chain" -> r.metadata.supplyChainRecordsFound
    [] r.mode = "connections" -> r.metadata.totalConnections
    [] OTHER -> IF r.metadata.foodSecurityCount = NoField \/ r.metadata.supplyChainCount = NoField
                THEN NoField
                ELSE r.metadata.foodSecurityCount + r.metadata.supplyChainCount

\* C18: the metadata of a map response reports the number of fact rows that
\* matched the year separately from the number of emitted features, so the
\* rows of provinces without geometry can be told from it.
C18_MetadataCountsFactRows ==
  MapOk =>
    /\ resp.metadata.totalProvinces = Cardinality(resp.features)
    /\ ReportedFactRows(resp)
         = Cardinality({ doc \in mapDb.fs : doc.y = resp.year /\ resp.mode \in {"food-security", "combined"} })
           + Cardinality({ doc \in mapDb.sc : doc.y = resp.year /\ resp.mode \in {"supply-chain", "combined"} })
           + Cardinality({ doc \in mapDb.conn : doc.y = resp.year /\ resp.mode = "connections" })

\* ---- single-record create and update handlers, one request at a time ----
\* most records one collection holds in a behaviour of CrudSpec
MaxRecords == 3
\* most requests served in a behaviour of CrudSpec
MaxRequests == 2

CrudDatasets == {"supplychain", "foodsecurity", "climate", "gwpr"}

\* a stored record: pid is provinceId (climate, GWPR), name is provinsi
\* (supply chain, food security), y is tahun, m is bulan (climate), v is the
\* payload (produksiBeras, indeks_ketahanan_pangan, produksi_padi, kelompok),
\* c is konsumsiBeras, kat is kategori_ketahanan_pangan.kategori and kondisi
\* is kondisi; a path the schema does not declare, or the record does not
\* have, holds NoStr / NoYear / Absent
FactDoc(id, pid, name, y, m, v, c, kat, kondisi) ==
  [id |-> id, pid |-> pid, name |-> name, y |-> y, m |-> m, v |-> v,
   c |-> c, kat |-> kat, kondisi |-> kondisi]

\* a record of a schema that has no konsumsiBeras, kategori or kondisi
CrudDoc(id, pid, name, y, m, v) == FactDoc(id, pid, name, y, m, v, Absent, Absent, NoStr)

\* determineFoodSecurityCategory: thresholds 37.61, 48.27, 57.11, 65.96 and
\* 74.40 on the index, compared in hundredths
Category(indeks) ==
  IF indeks * 100 <= 3761 THEN 1
  ELSE IF indeks * 100 <= 4827 THEN 2
  ELSE IF indeks * 100 <= 5711 THEN 3
  ELSE IF indeks * 100 <= 6596 THEN 4
  ELSE IF indeks * 100 <= 7440 THEN 5
  ELSE 6

\* supplyChainSchema.pre('save'): Defisit when production <= consumption
Kondisi(produksi, konsumsi) == IF produksi <= konsumsi THEN "Defisit" ELSE "Surplus"

\* the pre('save') hooks, run by save() and Model.create: the supply chain
\* hook always sets kondisi, the food security hook sets the category only
\* when the document has none
Saved(d, doc) ==
  CASE d = "supplychain" -> [doc EXCEPT !.kondisi = Kondisi(doc.v, doc.c)]
    [] d = "foodsecurity" -> [doc EXCEPT !.kat = IF @ = Absent THEN Category(doc.v) ELSE @]
    [] OTHER -> doc

\* req.body: provinceId, provinsi, tahun, bulan, the payload, konsumsiBeras,
\* kategori and kondisi; Missing / Absent / NoStr for a property the body
\* does not carry, NoYear for tahun: 0
FullBody(p, name, y, m, v, c, kat, kondisi) ==
  [p |-> p, name |-> name, y |-> y, m |-> m, v |-> v, c |-> c, kat |-> kat,
   kondisi |-> kondisi]

\* a body without kategori and kondisi, whose payload comes with konsumsiBeras 1
Body(p, name, y, m, v) ==
  FullBody(p, name, y, m, v, IF v = Absent THEN Absent ELSE 1, Absent, NoStr)

CrudBodies(d) ==
  { Body(p, name, y, m, v) :
      p \in {Missing, "a", "b"},
      name \in (IF d = "climate" THEN {Missing} ELSE {Missing, "Aceh", "Bali"}),
      y \in {Absent, NoYear, 2020, 2021},
      m \in (IF d = "climate" THEN {Absent, 1, 2} ELSE {Absent}),
      v \in {Absent, 1} }

\* records the collection may hold when the behaviour starts
CrudPool(d) ==
  CASE d \in {"supplychain", "foodsecurity"} ->
         { Saved(d, FactDoc(1, NoStr, "Aceh", 2020, Absent, 1, 1, Absent, NoStr)),
           Saved(d, FactDoc(2, NoStr, "Bali", 2020, Absent, 1, 1, Absent, NoStr)) }
    [] d = "climate" ->
         { CrudDoc(1, "a", NoStr, 2020, 1, 1), CrudDoc(2, "b", NoStr, 2020, 1, 1) }
    [] OTHER ->
         { CrudDoc(1, "a", NoStr, NoYear, Absent, 1), CrudDoc(2, "b", NoStr, NoYear, Absent, 1) }

\* the handlers that serve PUT /:id of a dataset
UpdateHandlers(d) ==
  CASE d = "supplychain" -> {"update"}
    [] d = "foodsecurity" -> {"updateFoodSecurityData"}
    [] d = "climate" -> {"updateClimate"}
    [] OTHER -> {"updateGWPR", "updateGWPRConfig"}

\* what a handler leaves behind: the HTTP status and the collection
Outcome(status, S) == [status |-> status, store |-> S]

\* the response of a single-record request with the request it answers, the
\* collection as it was before the request and the number of requests served
CrudResponse(status, op, handler, id, body, before, n) ==
  [status |-> status, op |-> op, handler |-> handler, id |-> id, body |-> body,
   before |-> before, n |-> n]

NoCrudResp ==
  CrudResponse(NoField, "none", NoStr, NoDoc, Body(Missing, Missing, Absent, Absent, Absent), {}, 0)

\* JavaScript truthiness of req.body.tahun
Truthy(y) == y # Absent /\ y # NoYear

\* the unique index of a collection over a record's fields (supply chain has none)
CrudIndexKey(d, doc) ==
  CASE d = "foodsecurity" -> <<doc.name, doc.y>>
    [] d = "climate" -> <<doc.pid, doc.m, doc.y>>
    [] d = "gwpr" -> <<doc.pid, doc.v>>
    [] OTHER -> <<doc.id>>

\* E11000: another record of the collection holds the index key of doc
DuplicateKey(d, S, doc) ==
  \E o \in S : o.id # doc.id /\ CrudIndexKey(d, o) = CrudIndexKey(d, doc)

\* schema validators of the paths a write sets
PathsValid(d, y, m, v) ==
  CASE d = "supplychain" -> TRUE
    [] d = "foodsecurity" ->
         /\ (y # Absent => (y >= MinYear /\ y <= MaxYear))
         /\ (v # Absent => (v >= 0 /\ v <= MaxIndeks))
    [] d = "climate" ->
         /\ (y # Absent => (y >= MinYear /\ y <= MaxYear))
         /\ (m # Absent => (m >= 1 /\ m <= 12))
         /\ (v # Absent => v >= 0)
    [] OTHER -> (v # Absent => v >= MinKelompok)

\* { $set: req.body } on a record: strict mode keeps the declared paths only
SetBody(d, doc, b) ==
  CASE d = "supplychain" ->
         [doc EXCEPT !.name = IF b.name # Missing THEN b.name ELSE @,
                     !.y = IF b.y # Absent THEN b.y ELSE @,
                     !.v = IF b.v # Absent THEN b.v ELSE @,
                     !.c = IF b.c # Absent THEN b.c ELSE @,
                     !.kondisi = IF b.kondisi # NoStr THEN b.kondisi ELSE @]
    [] d = "foodsecurity" ->
         [doc EXCEPT !.name = IF b.name # Missing THEN b.name ELSE @,
                     !.y = IF b.y # Absent THEN b.y ELSE @,
                     !.v = IF b.v # Absent THEN b.v ELSE @,
                     !.kat = IF b.kat # Absent THEN b.kat ELSE @]
    [] d = "climate" ->
         [doc EXCEPT !.pid = IF b.p # Missing THEN Canon(b.p) ELSE @,
                     !.y = IF b.y # Absent THEN b.y ELSE @,
                     !.m = IF b.m # Absent THEN b.m ELSE @,
                     !.v = IF b.v # Absent THEN b.v ELSE @]
    [] OTHER ->
         [doc EXCEPT !.pid = IF b.p # Missing THEN Canon(b.p) ELSE @,
                     !.v = IF b.v # Absent THEN b.v ELSE @]

Replace(S, doc) == { IF o.id = doc.id THEN doc ELSE o : o \in S }

\* if (req.body.tahun && req.body.tahun !== existingData.tahun)
YearGuard(y, stored) == Truthy(y) /\ y # stored

\* findByIdAndUpdate(id, { $set }, { runValidators: true }) inside the
\* handler's try block: a ValidationError is answered with 400, a duplicate
\* key with the status `other` of the handler's last catch branch
FindByIdAndUpdate(d, S, doc, b, other) ==
  IF ~PathsValid(d, b.y, b.m, b.v) THEN Outcome(400, S)
  ELSE IF DuplicateKey(d, S, SetBody(d, doc, b)) THEN Outcome(other, S)
  ELSE Outcome(200, Replace(S, SetBody(d, doc, b)))

\* supply chain: PUT /:id
update(S, id, b) ==
  IF ~\E doc \in S : doc.id = id THEN Outcome(404, S)
  ELSE LET existingData == CHOOSE doc \in S : doc.id = id
       IN IF b.p # Missing /\ FindProvince(b.p) = NoStr THEN Outcome(404, S)
          ELSE IF b.p # Missing /\ ProvinceName(FindProvince(b.p)) # existingData.name
          THEN Outcome(400, S)
          ELSE IF b.name # Missing /\ b.name # existingData.name THEN Outcome(400, S)
          ELSE IF YearGuard(b.y, existingData.y) THEN Outcome(400, S)
          ELSE FindByIdAndUpdate("supplychain", S, existingData, b, 500)

updateFoodSecurityData(S, id, b) ==
  IF ~\E doc \in S : doc.id = id THEN Outcome(404, S)
  ELSE LET existingData == CHOOSE doc \in S : doc.id = id
       IN IF b.name # Missing /\ b.name # existingData.name THEN Outcome(400, S)
          ELSE IF YearGuard(b.y, existingData.y) THEN Outcome(400, S)
          ELSE FindByIdAndUpdate("foodsecurity", S, existingData, b, 500)

\* climate and GWPR: findByIdAndUpdate(req.params.id, { ...req.body }) with no
\* lookup before it; every error is answered with 400
UnguardedUpdate(d, S, id, b) ==
  IF ~PathsValid(d, b.y, b.m, b.v) THEN Outcome(400, S)
  ELSE IF ~\E doc \in S : doc.id = id THEN Outcome(404, S)
  ELSE FindByIdAndUpdate(d, S, CHOOSE doc \in S : doc.id = id, b, 400)

updateClimate(S, id, b) == UnguardedUpdate("climate", S, id, b)

updateGWPR(S, id, b) == UnguardedUpdate("gwpr", S, id, b)

\* existingConfig.provinsi and existingConfig.tahun are undefined: the GWPR
\* schema declares neither path
updateGWPRConfig(S, id, b) ==
  IF ~\E doc \in S : doc.id = id THEN Outcome(404, S)
  ELSE LET existingConfig == CHOOSE doc \in S : doc.id = id
       IN IF b.name # Missing THEN Outcome(400, S)
          ELSE IF Truthy(b.y) THEN Outcome(400, S)
          ELSE FindByIdAndUpdate("gwpr", S, existingConfig, b, 500)

RunUpdate(h, S, id, b) ==
  CASE h = "update" -> update(S, id, b)
    [] h = "updateFoodSecurityData" -> updateFoodSecurityData(S, id, b)
    [] h = "updateClimate" -> updateClimate(S, id, b)
    [] h = "updateGWPR" -> updateGWPR(S, id, b)
    [] OTHER -> updateGWPRConfig(S, id, b)

\* supply chain and food security: POST /
\* Number.isInteger(tahun), Province.findById, findOne({ provinsi, tahun }),
\* Model.create
create(d, S, n, b) ==
  IF b.y = Absent THEN Outcome(400, S)
  ELSE IF FindProvince(b.p) = NoStr THEN Outcome(404, S)
  ELSE LET name == ProvinceName(FindProvince(b.p))
           doc == FactDoc(n, NoStr, name, b.y, Absent, b.v,
                          IF d = "supplychain" THEN b.c ELSE Absent,
                          IF d = "foodsecurity" THEN b.kat ELSE Absent, NoStr)
       IN IF \E o \in S : o.name = name /\ o.y = b.y THEN Outcome(409, S)
          ELSE IF b.v = Absent \/ ~PathsValid(d, b.y, b.m, b.v) THEN Outcome(400, S)
          ELSE IF d = "supplychain" /\ b.c = Absent THEN Outcome(400, S)
          ELSE Outcome(201, S \cup {Saved(d, doc)})

\* new Climate(req.body).save(): validation, then the insert against the
\* unique index; error.code 11000 and every other error are answered with 400
createClimate(S, n, b) ==
  LET doc == CrudDoc(n, Canon(b.p), NoStr, b.y, b.m, b.v)
  IN IF b.p = Missing \/ b.y = Absent \/ b.m = Absent \/ b.v = Absent
        \/ ~PathsValid("climate", b.y, b.m, b.v)
     THEN Outcome(400, S)
     ELSE IF DuplicateKey("climate", S, doc) THEN Outcome(400, S)
     ELSE Outcome(201, S \cup {doc})

RunCreate(d, S, n, b) ==
  IF d = "climate" THEN createClimate(S, n, b) ELSE create(d, S, n, b)

CrudInit ==
  /\ ds \in CrudDatasets
  /\ store \in SUBSET CrudPool(ds)
  /\ nextId = 3
  /\ resp = NoCrudResp
  /\ strictQuery = FALSE
  /\ call = [w \in Workers |-> IdleCall]
  /\ faulted = FALSE
  /\ mapDb = NoMapDb

CreateRecord(b) ==
  /\ ds \in {"supplychain", "foodsecurity", "climate"}
  /\ resp.n < MaxRequests
  /\ Cardinality(store) < MaxRecords
  /\ LET out == RunCreate(ds, store, nextId, b)
     IN /\ store' = out.store
        /\ nextId' = IF out.status = 201 THEN nextId + 1 ELSE nextId
        /\ resp' = CrudResponse(out.status, "create", "create", NoDoc, b, store, resp.n + 1)
  /\ UNCHANGED <<ds, strictQuery, call, faulted, mapDb>>

UpdateRecord(h, id, b) ==
  /\ h \in UpdateHandlers(ds)
  /\ resp.n < MaxRequests
  /\ LET out == RunUpdate(h, store, id, b)
     IN /\ store' = out.store
        /\ resp' = CrudResponse(out.status, "update", h, id, b, store, resp.n + 1)
  /\ UNCHANGED <<ds, strictQuery, nextId, call, faulted, mapDb>>

CrudNext ==
  \/ \E b \in CrudBodies(ds) : CreateRecord(b)
  \/ \E h \in UpdateHandlers(ds) : \E id \in 1..nextId : \E b \in CrudBodies(ds) :
       UpdateRecord(h, id, b)

CrudSpec == CrudInit /\ [][CrudNext]_vars

\* ---- cached fields: bulk import rows and the category backfill ----
\* one row of a bulk import that runs alone: the handler's checks, the
\* existence lookup, then findByIdAndUpdate({ $set }) or Model.create; a row
\* that throws is tallied failed and writes nothing
bulkImportFoodSecurityRow(S, n, b) ==
  IF b.p = Missing \/ ~Truthy(b.y) \/ b.v = Absent \/ b.v = 0 THEN S
  ELSE IF b.y < MinYear \/ b.y > MaxYear THEN S
  ELSE IF FindProvince(b.p) = NoStr THEN S
  ELSE IF b.v < 0 \/ b.v > MaxIndeks THEN S
  ELSE LET name == ProvinceName(FindProvince(b.p))
           \* the entry is built field by field: a kategori of the row is not
           \* copied, the category is computed from the row's index
           categoryInfo == Category(b.v)
       IN IF \E o \in S : o.name = name /\ o.y = b.y
          THEN LET existingData == CHOOSE o \in S : o.name = name /\ o.y = b.y
               IN Replace(S, [existingData EXCEPT !.v = b.v, !.kat = categoryInfo])
          ELSE S \cup { Saved("foodsecurity",
                              FactDoc(n, NoStr, name, b.y, Absent, b.v, Absent,
                                      categoryInfo, NoStr)) }

\* the supply chain entry is { ...data, provinsi, ... }: the row's kondisi,
\* produksiBeras and konsumsiBeras go into $set as they are
bulkImportSupplyChainRow(S, n, b) ==
  IF b.p = Missing \/ ~Truthy(b.y) THEN S
  ELSE IF b.y < MinYear \/ b.y > MaxYear THEN S
  ELSE IF FindProvince(b.p) = NoStr THEN S
  ELSE LET name == ProvinceName(FindProvince(b.p))
       IN IF \E o \in S : o.name = name /\ o.y = b.y
          THEN LET existingData == CHOOSE o \in S : o.name = name /\ o.y = b.y
               IN Replace(S, SetBody("supplychain", existingData, b))
          ELSE IF b.v = Absent \/ b.c = Absent THEN S
          ELSE S \cup { Saved("supplychain",
                              FactDoc(n, NoStr, name, b.y, Absent, b.v, b.c, Absent, NoStr)) }

bulkImportRow(d, S, n, b) ==
  IF d = "foodsecurity" THEN bulkImportFoodSecurityRow(S, n, b)
  ELSE bulkImportSupplyChainRow(S, n, b)

\* updateFoodSecurityCategories: every record without a category gets the
\* category of its index
updateFoodSecurityCategories(S) ==
  { IF doc.kat = Absent THEN [doc EXCEPT !.kat = Category(doc.v)] ELSE doc : doc \in S }

DerivedDatasets == {"supplychain", "foodsecurity"}

\* request bodies of one province and one year that vary the payload and the
\* cached fields
DerivedBodies(d) ==
  { FullBody("a", Missing, y, Absent, v, c, kat, kondisi) :
      y \in {Absent, 2020},
      v \in (IF d = "foodsecurity" THEN {Absent, 1, 80} ELSE {Absent, 1, 2}),
      c \in (IF d = "foodsecurity" THEN {Absent} ELSE {Absent, 1, 2}),
      kat \in (IF d = "foodsecurity" THEN {Absent, 1, 6} ELSE {Absent}),
      kondisi \in (IF d = "foodsecurity" THEN {NoStr} ELSE {NoStr, "Surplus", "Defisit"}) }

\* records the collection may hold when the behaviour starts: written by
\* create, and for food security one record from before the category existed
DerivedPool(d) ==
  IF d = "foodsecurity"
  THEN { Saved(d, FactDoc(1, NoStr, "Aceh", 2020, Absent, 1, Absent, Absent, NoStr)),
         FactDoc(2, NoStr, "Bali", 2020, Absent, 80, Absent, Absent, NoStr) }
  ELSE { Saved(d, FactDoc(1, NoStr, "Aceh", 2020, Absent, 1, 1, Absent, NoStr)),
         Saved(d, FactDoc(2, NoStr, "Bali", 2020, Absent, 2, 1, Absent, NoStr)) }

DerivedInit ==
  /\ ds \in DerivedDatasets
  /\ store \in SUBSET DerivedPool(ds)
  /\ nextId = 3
  /\ resp = NoCrudResp
  /\ strictQuery = FALSE
  /\ call = [w \in Workers |-> IdleCall]
  /\ faulted = FALSE
  /\ mapDb = NoMapDb

\* POST /bulk with one row, running alone: the row's write is committed
BulkImportOne(b) ==
  /\ resp.n < MaxRequests
  /\ Cardinality(store) < MaxRecords
  /\ store' = bulkImportRow(ds, store, nextId, b)
  /\ nextId' = IF Cardinality(store') > Cardinality(store) THEN nextId + 1 ELSE nextId
  /\ resp' = CrudResponse(200, "bulk", "bulkImport", NoDoc, b, store, resp.n + 1)
  /\ UNCHANGED <<ds, strictQuery, call, faulted, mapDb>>

BackfillCategories ==
  /\ ds = "foodsecurity"
  /\ resp.n < MaxRequests
  /\ store' = updateFoodSecurityCategories(store)
  /\ resp' = CrudResponse(200, "backfill", "updateFoodSecurityCategories", NoDoc,
                          resp.body, store, resp.n + 1)
  /\ UNCHANGED <<ds, strictQuery, nextId, call, faulted, mapDb>>

DerivedNext ==
  \/ \E b \in DerivedBodies(ds) : CreateRecord(b)
  \/ \E h \in UpdateHandlers(ds) : \E id \in 1..nextId : \E b \in DerivedBodies(ds) :
       UpdateRecord(h, id, b)
  \/ \E b \in DerivedBodies(ds) : BulkImportOne(b)
  \/ BackfillCategories

DerivedSpec == DerivedInit /\ [][DerivedNext]_vars

\* ---- claims about single-record create and update ----

\* ---- getConnectionStatistics ----
\* provinceStats.slice(0, 10)
TopN == 10

\* Province.find({}): one province more than the slice keeps
StatProvinces == 1..(TopN + 1)

\* connections the collection may hold: a ring over the provinces in 2020,
\* two more connections of province 1 and one of province 11 in 2021
StatPool ==
  { [id |-> i, pid |-> i, q |-> (i % (TopN + 1)) + 1, y |-> 2020] : i \in StatProvinces }
    \cup { [id |-> TopN + 2, pid |-> 1, q |-> 2, y |-> 2021],
           [id |-> TopN + 3, pid |-> 3, q |-> 1, y |-> 2021],
           [id |-> TopN + 4, pid |-> TopN + 1, q |-> TopN, y |-> 2021] }

\* one entry of provinceStats: countDocuments by source and by target, over
\* the connections of every year
ProvinceStat(conns, p) ==
  LET sourceCount == Cardinality({ c \in conns : c.pid = p })
      targetCount == Cardinality({ c \in conns : c.q = p })
  IN [province |-> p, connectionsAsSource |-> sourceCount,
      connectionsAsTarget |-> targetCount, totalConnections |-> sourceCount + targetCount]

\* a comparator that sorts by increasing total
ComesBeforeAscending(a, b) == a.totalConnections <= b.totalConnections

\* (a, b) => b.totalConnections - a.totalConnections: a stays before b unless
\* b has the larger total
ComesBefore(a, b) == a.totalConnections >= b.totalConnections

RECURSIVE InsertSorted(_, _)
\* stable insertion of x behind every entry that comes before it
InsertSorted(sorted, x) ==
  IF sorted = <<>> THEN <<x>>
  ELSE IF ComesBefore(Head(sorted), x) THEN <<Head(sorted)>> \o InsertSorted(Tail(sorted), x)
  ELSE <<x>> \o sorted

RECURSIVE SortStats(_)
\* Array.prototype.sort with the comparator (stable)
SortStats(stats) ==
  IF stats = <<>> THEN <<>>
  ELSE InsertSorted(SortStats(SubSeq(stats, 1, Len(stats) - 1)), stats[Len(stats)])

\* slice(0, n)
Slice(seq, n) == SubSeq(seq, 1, IF Len(seq) < n THEN Len(seq) ELSE n)

StatsResponse(status, total, years, byYear, stats) ==
  [status |-> status, op |-> "statistics", totalConnections |-> total, years |-> years,
   connectionsByYear |-> byYear, provinceStats |-> stats]

NoStatsResp == [StatsResponse(NoField, 0, {}, {}, <<>>) EXCEPT !.op = "none"]

getConnectionStatistics(conns) ==
  LET years == { c.y : c \in conns }
      connectionsByYear ==
        { [year |-> y, count |-> Cardinality({ c \in conns : c.y = y })] : y \in years }
      provinceStats == [p \in StatProvinces |-> ProvinceStat(conns, p)]
  IN StatsResponse(200, Cardinality(conns), years, connectionsByYear,
                   Slice(SortStats(provinceStats), TopN))

StatsInit ==
  /\ mapDb \in { [NoMapDb EXCEPT !.conn = S] : S \in SUBSET StatPool }
  /\ resp = NoStatsResp
  /\ ds = "connections"
  /\ strictQuery = FALSE
  /\ store = {}
  /\ nextId = 1
  /\ call = [w \in Workers |-> IdleCall]
  /\ faulted = FALSE

GetStatistics ==
  /\ resp' = getConnectionStatistics(mapDb.conn)
  /\ UNCHANGED <<mapDb, ds, strictQuery, store, nextId, call, faulted>>

StatsNext == GetStatistics

StatsSpec == StatsInit /\ [][StatsNext]_vars

\* ================== authentication, authorisation, routing ==================
\* roles of the user schema
Roles == {"masyarakat", "pemerintah", "petugas_lapangan"}

\* the users collection: [id, role]
Users ==
  { [id |-> 1, role |-> "masyarakat"], [id |-> 2, role |-> "petugas_lapangan"],
    [id |-> 3, role |-> "pemerintah"] }

\* what a request carries as credentials: no token, a token that jwt.verify
\* rejects (bad signature or expired), a verified token without userId / id,
\* or a verified token of a user id; user id 4 is not in the collection
Credentials ==
  { [token |-> t, userId |-> NoDoc] : t \in {"none", "invalid", "expired", "noid"} }
    \cup { [token |-> "verified", userId |-> u] : u \in 1..4 }

\* the request as the middlewares see and extend it
Request(cred) == [cred |-> cred, isAuthenticated |-> FALSE, user |-> NoStr]

\* what a middleware does: next() with the request, or next(error)
Pass(req) == [next |-> "next", status |-> NoField, req |-> req]

Reject(status, req) == [next |-> "error", status |-> status, req |-> req]

authenticate(req) ==
  IF req.cred.token = "none" THEN Reject(401, req)
  ELSE IF req.cred.token \in {"invalid", "expired"} THEN Reject(401, req)
  ELSE IF req.cred.token = "noid" THEN Reject(401, req)
  ELSE IF ~\E u \in Users : u.id = req.cred.userId THEN Reject(401, req)
  ELSE LET user == CHOOSE u \in Users : u.id = req.cred.userId
       IN Pass([req EXCEPT !.isAuthenticated = TRUE, !.user = user.role])

\* authorize with an empty roles list: every authenticated user passes
authorizeAnyRole(roles, req) ==
  IF ~req.isAuthenticated \/ req.user = NoStr THEN Reject(401, req)
  ELSE Pass(req)

authorize(roles, req) ==
  IF ~req.isAuthenticated \/ req.user = NoStr THEN Reject(401, req)
  ELSE IF roles # {} /\ req.user \notin roles THEN Reject(403, req)
  ELSE Pass(req)

\* a route: router, method and path, the middlewares in front of the handler
\* (authenticate, then authorize(roles) when the route has one) and the handler
Route(router, method, path, auth, roles, handler) ==
  [router |-> router, method |-> method, path |-> path, authenticate |-> auth,
   authorize |-> roles # {}, roles |-> roles, handler |-> handler]

WritePrivilege == {"petugas_lapangan", "pemerintah"}

\* the write routes of the connect-province router
ConnectProvinceRoutes ==
  { Route("connections", "POST", "/connection", TRUE, WritePrivilege, "createConnection"),
    Route("connections", "PUT", "/connection/:connectionId", TRUE, WritePrivilege,
          "updateConnection"),
    Route("connections", "POST", "/connections/bulk", TRUE, WritePrivilege,
          "bulkImportConnections"),
    Route("connections", "DELETE", "/connection/:connectionId", TRUE, WritePrivilege,
          "deleteConnection") }

\* the write routes of the supply chain router
SupplyChainRoutes ==
  { Route("supplychain", "POST", "/", TRUE, WritePrivilege, "create"),
    Route("supplychain", "PUT", "/:id", TRUE, WritePrivilege, "update"),
    Route("supplychain", "DELETE", "/:id", TRUE, WritePrivilege, "deleteSupplyChain"),
    Route("supplychain", "POST", "/bulk-import", TRUE, WritePrivilege,
          "bulkImportSupplyChain") }

WriteRoutes == ConnectProvinceRoutes \cup SupplyChainRoutes

\* express runs the middlewares of the route in order; next(error) skips the
\* rest of the chain and the handler
RunMiddlewares(route, req) ==
  LET a == IF route.authenticate THEN authenticate(req) ELSE Pass(req)
  IN IF a.next = "error" THEN a
     ELSE IF route.authorize THEN authorize(route.roles, a.req)
     ELSE a

\* ---- the handlers behind the write routes, each running alone ----
\* POST /connection
createConnection(S, n, r) ==
  LET chk == SingleCheck("connections", r)
      e == Entry("connections", r)
  IN IF chk \in {"missing", "self"} THEN Outcome(400, S)
     ELSE IF chk = "notfound" THEN Outcome(404, S)
     ELSE IF SingleFindOne("connections", S, r) # NoDoc THEN Outcome(200, S)
     ELSE IF ~SchemaOkCreate("connections", e) THEN Outcome(500, S)
     ELSE Outcome(201, S \cup {WithId(e, n)})

\* PUT /connection/:connectionId: save() of the unmodified document
updateConnection(S, id) ==
  IF \E doc \in S : doc.id = id THEN Outcome(200, S) ELSE Outcome(404, S)

\* DELETE /connection/:connectionId
deleteConnection(S, id) ==
  IF \E doc \in S : doc.id = id THEN Outcome(200, { doc \in S : doc.id # id })
  ELSE Outcome(404, S)

\* POST /connections/bulk with a batch of one row
bulkImportConnections(S, n, r) ==
  LET e == Entry("connections", r)
  IN IF HandlerCheck("connections", r) # "ok" THEN Outcome(200, S)
     ELSE IF FindOne("connections", FALSE, S, r) # NoDoc THEN Outcome(200, S)
     ELSE IF ~SchemaOkCreate("connections", e) THEN Outcome(200, S)
     ELSE Outcome(200, S \cup {WithId(e, n)})

\* DELETE /:id of the supply chain router
deleteSupplyChain(S, id) ==
  IF \E doc \in S : doc.id = id THEN Outcome(200, { doc \in S : doc.id # id })
  ELSE Outcome(404, S)

RunHandler(handler, S, n, id, b) ==
  CASE handler = "createConnection" -> createConnection(S, n, b)
    [] handler = "updateConnection" -> updateConnection(S, id)
    [] handler = "bulkImportConnections" -> bulkImportConnections(S, n, b)
    [] handler = "deleteConnection" -> deleteConnection(S, id)
    [] handler = "create" -> create("supplychain", S, n, b)
    [] handler = "update" -> update(S, id, b)
    [] handler = "deleteSupplyChain" -> deleteSupplyChain(S, id)
    [] OTHER -> Outcome(200, bulkImportSupplyChainRow(S, n, b))

\* ---- requests to the write routes ----
AuthDatasets == {"connections", "supplychain"}

\* records the collection may hold when the behaviour starts
AuthPool(d) ==
  IF d = "connections"
  THEN { WithId(Entry(d, Row("a", "b", 2020, 0)), 1), WithId(Entry(d, Row("b", "a", 2020, 0)), 2) }
  ELSE CrudPool(d)

\* request bodies: a row that creates, a row that meets a stored record, a
\* row the handler rejects and a row of a year before 2000
AuthBodies(d) ==
  IF d = "connections"
  THEN { Row("a", "b", 2020, 0), Row("a", "b", 2021, 0), Row("a", "a", 2020, 0),
         Row("b", "a", 1999, 0) }
  ELSE { Body("a", Missing, 2020, Absent, 1), Body("a", Missing, 2021, Absent, 1),
         Body("z", Missing, 2021, Absent, 1), Body("b", Missing, 1999, Absent, 1) }

\* the response of a write request with the route and the credentials of the
\* request, whether the handler ran, the collection as it was before the
\* request and the number of requests served
AuthResponse(status, route, cred, reached, before, n) ==
  [status |-> status, op |-> "write", route |-> route, cred |-> cred,
   reached |-> reached, before |-> before, n |-> n]

NoAuthResp ==
  [AuthResponse(NoField, Route(NoStr, NoStr, NoStr, FALSE, {}, NoStr),
                [token |-> "none", userId |-> NoDoc], FALSE, {}, 0) EXCEPT !.op = "none"]

AuthInit ==
  /\ ds \in AuthDatasets
  /\ store \in SUBSET AuthPool(ds)
  /\ nextId = 3
  /\ resp = NoAuthResp
  /\ strictQuery = FALSE
  /\ call = [w \in Workers |-> IdleCall]
  /\ faulted = FALSE
  /\ mapDb = NoMapDb

\* a request to a write route: the middlewares, then the handler or, after
\* next(error), the error middleware, which only answers
ServeWrite(route, cred, id, b) ==
  /\ route.router = ds
  /\ resp.n < MaxRequests
  /\ Cardinality(store) < MaxRecords
  /\ LET m == RunMiddlewares(route, Request(cred))
         out == RunHandler(route.handler, store, nextId, id, b)
     IN IF m.next = "error"
        THEN /\ resp' = AuthResponse(m.status, route, cred, FALSE, store, resp.n + 1)
             /\ UNCHANGED <<store, nextId>>
        ELSE /\ store' = out.store
             /\ nextId' = IF Cardinality(out.store) > Cardinality(store)
                          THEN nextId + 1 ELSE nextId
             /\ resp' = AuthResponse(out.status, route, cred, TRUE, store, resp.n + 1)
  /\ UNCHANGED <<ds, strictQuery, call, faulted, mapDb>>

AuthNext ==
  \E route \in WriteRoutes : \E cred \in Credentials : \E id \in 1..nextId :
    \E b \in AuthBodies(ds) : ServeWrite(route, cred, id, b)

AuthSpec == AuthInit /\ [][AuthNext]_vars

\* the (province, year, month) of a stored record
NaturalKey(doc) == <<doc.pid, doc.name, doc.y, doc.m>>

\* the request names a province, a year or a month other than the record's
CarriesDifferentKey(d, doc, b) ==
  \/ /\ b.p # Missing
     /\ IF d \in {"supplychain", "foodsecurity"}
        THEN ProvinceName(Canon(b.p)) # doc.name
        ELSE Canon(b.p) # doc.pid
  \/ b.name # Missing /\ d \in {"supplychain", "foodsecurity"} /\ b.name # doc.name
  \/ b.y # Absent /\ d # "gwpr" /\ b.y # doc.y
  \/ b.m # Absent /\ d = "climate" /\ b.m # doc.m

\* C19: natural-key immutability: after an update request every record that
\* was stored before it still has its province, year and month, and a request
\* that carries a different province or year for its record is rejected and
\* leaves the collection as it was.
C19_NaturalKeyImmutable ==
  resp.op = "update" =>
    /\ \A doc \in resp.before :
         \E o \in store : o.id = doc.id /\ NaturalKey(o) = NaturalKey(doc)
    /\ \A doc \in resp.before :
         (doc.id = resp.id /\ CarriesDifferentKey(ds, doc, resp.body))
           => (resp.status >= 400 /\ store = resp.before)

\* a record with the natural key of the create request is stored
KeyExists(d, S, b) ==
  IF d = "climate"
  THEN \E o \in S : o.pid = Canon(b.p) /\ o.y = b.y /\ o.m = b.m
  ELSE /\ FindProvince(b.p) # NoStr
       /\ \E o \in S : o.name = ProvinceName(FindProvince(b.p)) /\ o.y = b.y

\* C20: a single create of a supply chain, food security or climate record
\* whose natural key is already stored is answered with 409 and leaves the
\* collection as it was: no record added, none modified.
C20_CreateConflictIs409 ==
  (resp.op = "create" /\ KeyExists(ds, resp.before, resp.body))
    => (resp.status = 409 /\ store = resp.before)

\* ================= claims about the connection and write handlers =================

\* request w was a single create that has returned
SingleDone(w) == call[w].kind = "single" /\ call[w].pc = "done"

\* createConnection was called twice in sequence with the same valid triple,
\* which was not stored before the first call
SameTripleTwice ==
  /\ ds = "connections"
  /\ \A w \in Workers : SingleDone(w) /\ Clean(w)
  /\ call[1].batch = call[2].batch
  /\ StructValid(ds, call[1].batch[1])
  /\ WithKey(ds, call[1].start, RowKey(ds, call[1].batch[1])) = {}

\* C21: createConnection called twice in sequence with the same valid triple:
\* the first call reports created, the second reports updated, exactly one
\* connection of the triple is stored, and the second call changes no stored
\* connection.
C21_CreateConnectionIdempotent ==
  SameTripleTwice =>
    /\ Returned(1) /\ Returned(2)
    /\ call[1].rowOut = <<"created">>
    /\ call[2].rowOut = <<"updated">>
    /\ Cardinality(WithKey(ds, call[2].end, RowKey(ds, call[1].batch[1]))) = 1
    /\ call[2].start = call[1].end
    /\ call[2].end = call[2].start

\* both calls of the same triple have returned
C21_Witness == SameTripleTwice /\ Returned(2) /\ store # {}

\* the dataset types whose records are fact rows of one province
FactDatasets == Datasets \ {"connections"}

\* C22: every persisted fact row (written by a single create or a bulk import,
\* whatever the dataset type) carries both the province id and the province
\* name, and the name is the name of the province with that id.
C22_RowCarriesIdAndName ==
  ds \in FactDatasets =>
    \A doc \in store :
      /\ doc.pid # NoStr
      /\ doc.name # NoStr
      /\ doc.name = ProvinceName(doc.pid)

\* C23: whatever the sequence of food-security creates, updates, bulk imports
\* and category backfills, the stored category of every record is the category
\* that the threshold function derives from the record's stored index.
C23_CategoryMatchesIndex ==
  ds = "foodsecurity" =>
    \A doc \in store : doc.kat # Absent => doc.kat = Category(doc.v)

\* C29: whatever the sequence of supply-chain creates, updates and bulk
\* imports, the stored kondisi of every record is 'Surplus' exactly when its
\* produksiBeras is greater than its konsumsiBeras, and 'Defisit' otherwise.
C29_KondisiMatchesBalance ==
  ds = "supplychain" =>
    \A doc \in store :
      /\ (doc.kondisi = "Surplus") <=> (doc.v > doc.c)
      /\ (doc.kondisi = "Defisit") <=> ~(doc.v > doc.c)

\* total degree of a province over the connections of all years
TotalDegree(p) ==
  Cardinality({ c \in mapDb.conn : c.pid = p }) + Cardinality({ c \in mapDb.conn : c.q = p })

\* C24: the statistics list at most TopN provinces, each once and with its
\* total degree (out-degree plus in-degree over the connections of all
\* years), in order of non-increasing total degree, and no province left out
\* has a strictly larger total degree than a listed one.
C24_TopProvincesByDegree ==
  resp.op = "statistics" =>
    LET stats == resp.provinceStats
        listed == { stats[i].province : i \in 1..Len(stats) }
    IN /\ Len(stats) <= TopN
       /\ \A i, j \in 1..Len(stats) : stats[i].province = stats[j].province => i = j
       /\ \A i \in 1..Len(stats) :
            /\ stats[i].province \in StatProvinces
            /\ stats[i].totalConnections = TotalDegree(stats[i].province)
            /\ stats[i].totalConnections
                 = stats[i].connectionsAsSource + stats[i].connectionsAsTarget
       /\ \A i, j \in 1..Len(stats) :
            i < j => stats[i].totalConnections >= stats[j].totalConnections
       /\ \A p \in StatProvinces \ listed :
            \A i \in 1..Len(stats) : TotalDegree(p) <= stats[i].totalConnections

\* statistics with a full list of unequal degrees that leaves out a province
\* which has connections of two years
C24_Witness ==
  /\ resp.op = "statistics"
  /\ Len(resp.provinceStats) = TopN
  /\ resp.provinceStats[1].totalConnections > resp.provinceStats[TopN].totalConnections
  /\ \E p \in StatProvinces :
       /\ \A i \in 1..TopN : resp.provinceStats[i].province # p
       /\ \E c, e \in mapDb.conn : c.y # e.y /\ p \in {c.pid, c.q} /\ p \in {e.pid, e.q}

\* the request carries the token of a user of the collection
ValidPrincipal(cred) == cred.token = "verified" /\ \E u \in Users : u.id = cred.userId

\* the request carries an authenticated user whose role may write
PrivilegedPrincipal(cred) ==
  /\ ValidPrincipal(cred)
  /\ \E u \in Users : u.id = cred.userId /\ u.role \in {"petugas_lapangan", "pemerintah"}

\* C25: a write handler of the connection and supply chain routers (single
\* create, update, delete, bulk import) runs only for a request that carries
\* an authenticated user of role petugas_lapangan or pemerintah; a request
\* without a valid principal or of role masyarakat does not reach the
\* handler, is answered 401 or 403 and changes no stored record.
C25_WritesNeedPrivilegedRole ==
  resp.op = "write" =>
    /\ resp.reached => PrivilegedPrincipal(resp.cred)
    /\ ~PrivilegedPrincipal(resp.cred) =>
         /\ ~resp.reached
         /\ store = resp.before
         /\ resp.status = (IF ValidPrincipal(resp.cred) THEN 403 ELSE 401)

\* a masyarakat user was turned away from a delete of a stored record
\* that a privileged user could have removed
C25_Witness ==
  /\ resp.op = "write"
  /\ resp.route.method = "DELETE"
  /\ resp.cred = [token |-> "verified", userId |-> 1]
  /\ resp.status = 403
  /\ ~resp.reached
  /\ store = resp.before
  /\ \E doc \in store : RunHandler(resp.route.handler, store, nextId, doc.id,
                                   CHOOSE b \in AuthBodies(ds) : TRUE).store # store

\* the rows of the batch that were counted created and carry key k
CreatedFor(d, c, k) ==
  { i \in Occurrences(d, c.batch, k) : i <= Len(c.rowOut) /\ c.rowOut[i] = "created" }

\* C26: in a bulk import that runs alone, a natural key that is absent from
\* the store at the start of the call and that two structurally valid rows
\* of the batch carry ends with exactly one persisted record: the existence
\* lookup of the second row sees the first row's create, so at most one of
\* the rows is a create.
C26_DuplicateFreshKeyCreatedOnce ==
  \A w \in Workers :
    (BulkDone(w) /\ Clean(w)) =>
      \A i, j \in 1..Len(call[w].batch) :
        LET r == call[w].batch[i]
            k == RowKey(ds, r)
        IN (/\ i < j
            /\ RowKey(ds, call[w].batch[j]) = k
            /\ StructValid(ds, r) /\ StructValid(ds, call[w].batch[j])
            /\ WithKey(ds, call[w].start, k) = {})
           => /\ Cardinality(WithKey(ds, call[w].end, k)) = 1
              /\ Cardinality(CreatedFor(ds, call[w], k)) <= 1

\* the steps of request w after its arrival
Step(w) == Lookup(w) \/ Write(w) \/ Commit(w) \/ SingleLookup(w) \/ SingleWrite(w)

\* the event loop resumes every handler whose awaited operation has settled
FairSpec == Spec /\ \A w \in Workers : WF_vars(Step(w))

\* C27: a handler that has started a session and a transaction eventually
\* commits or aborts the transaction and ends the session, on every return
\* path: after the early returns for an empty batch, missing fields, a
\* self-connection, an unknown province and a record that is not found too.
C27_TransactionAlwaysClosed ==
  \A w \in Workers :
    (call[w].txState = "active") ~> (call[w].txState \in {"committed", "aborted"})

\* errors[] of the result holds the entry of row j of the call's batch: the
\* row with the error it threw, and its index where the entries have one
InErrors(c, j) ==
  \E k \in 1..Len(c.res.errors) :
    /\ c.res.errors[k].row = c.batch[j]
    /\ c.res.errors[k].index \in {NoField, j}
    /\ c.res.errors[k].error = c.rowOut[j]

\* doc is what the create or the $set of row r leaves in the store
WrittenBy(d, doc, r) ==
  LET e == Entry(d, r)
  IN /\ doc.pid = e.pid /\ doc.name = e.name /\ doc.q = e.q /\ doc.y = e.y
     /\ (e.v # Absent => doc.v = e.v)

C30_StoredYearInReadRange ==
  ds \in {"connections", "supplychain"} =>
    \A doc \in store : doc.y >= MinYear /\ doc.y <= MaxYear

RECURSIVE SumOver(_, _)
\* the sum of field(f) over the features of F, one term per province
SumOver(F, field) ==
  IF F = {} THEN 0
  ELSE LET f == CHOOSE x \in F : TRUE
       IN (IF field = "outgoing" THEN f.outgoingConnections ELSE f.incomingConnections)
            + SumOver(F \ {f}, field)

\* C31: in a connections response the node annotations and the edge list
\* agree: the outgoingConnections of the features add up to the number of
\* connection lines, so do the incomingConnections, and
\* metadata.totalConnections is the number of connection lines, also when an
\* endpoint of a connection is a province without geoData.
C31_NodeDegreesMatchEdges ==
  (MapOk /\ resp.mode = "connections") =>
    /\ SumOver(resp.features, "outgoing") = Cardinality(resp.connections)
    /\ SumOver(resp.features, "incoming") = Cardinality(resp.connections)
    /\ resp.metadata.totalConnections = Cardinality(resp.connections)

\* C32: the availableYears of the supply chain map's NotFound answer never
\* contain the requested year, also when no row is left because of the
\* condition filter and not because the year has no data.
C32_AvailableYearsExcludeRequested ==
  (resp.mode = "supply-chain" /\ resp.status = "notfound")
  => resp.year \notin resp.availableYears

\* surplus iff production > consumption, deficit iff production <
\* consumption, balanced iff they are equal
BalanceType(production, consumption) ==
  CASE production > consumption -> "surplus"
    [] production < consumption -> "deficit"
    [] OTHER -> "balanced"

\* C33: every map read path that reports a balanceType for a supply chain
\* record (the supply chain map, the combined map, the province details and
\* the province summary) reports surplus iff the stored production exceeds
\* the stored consumption, deficit iff it is below and balanced iff they
\* are equal, so that the paths agree on every record.
C33_BalanceTypeSameOnEveryPath ==
  /\ (resp.status = "ok" /\ resp.mode \in {"supply-chain", "combined"}) =>
       \A f \in resp.features :
         f.balanceType # NoStr =>
           f.balanceType = BalanceType(f.produksiBeras, f.konsumsiBeras)
  /\ (resp.status = "ok" /\ resp.mode \in {"details", "summary"}) =>
       \A e \in resp.supplyChain :
         e.balanceType # NoStr => e.balanceType = BalanceType(e.production, e.consumption)

\* ---- chunked bulk creation of climate records ----
\* batchSize of the chunked climate handlers (1000 in bulkCreateClimate and
\* processLargeClimateFile, 500 in streamBulkCreateClimate), scaled down
ChunkSize == 2
\* most records one bulk request carries
MaxInput == 5

ChunkHandlers == {"bulkCreateClimate", "streamBulkCreateClimate", "processLargeClimateFile"}

\* records a bulk request may carry: two valid records with different
\* (provinceId, bulan, tahun) and one whose bulan fails the max validator
ClimateRecords ==
  { Body("a", Missing, 2020, 1, 1), Body("b", Missing, 2020, 1, 1),
    Body("a", Missing, 2020, 13, 1) }

ClimateInputs == UNION { [1..n -> ClimateRecords] : n \in 0..MaxInput }

\* outcome of the connection during one insertMany: "none" no failure,
\* "before" the call fails before the server writes, "after" the server
\* writes and the reply is lost
ChunkFaults == {"none", "before", "after"}

\* number of chunks the slicing loop builds from n records
ChunkCount(n) == (n + ChunkSize - 1) \div ChunkSize

\* slices that overlap by one record
BatchOverlapping(records, k) ==
  SubSeq(records, (k - 1) * ChunkSize + 1,
         IF k * ChunkSize + 1 < Len(records) THEN k * ChunkSize + 1 ELSE Len(records))

\* records.slice(i, i + batchSize) of the k-th round of the loop
Batch(records, k) ==
  SubSeq(records, (k - 1) * ChunkSize + 1,
         IF k * ChunkSize < Len(records) THEN k * ChunkSize ELSE Len(records))

\* document validation of insertMany: required paths and the validators
RecordValid(r) ==
  /\ r.p # Missing /\ r.y # Absent /\ r.m # Absent /\ r.v # Absent
  /\ PathsValid("climate", r.y, r.m, r.v)

\* what one insertMany leaves behind: the collection, the next free id, the
\* ids it inserted, the number of write errors (E11000) and the number of
\* documents dropped by validation
InsertResult(S, n, ids, writeErrors, invalid) ==
  [store |-> S, nextId |-> n, ids |-> ids, writeErrors |-> writeErrors, invalid |-> invalid]

\* Model.insertMany(batch, { ordered: false }): documents that fail validation
\* are left out, the others are sent in order and the unique index rejects
\* each one whose (provinceId, bulan, tahun) is held already
RECURSIVE InsertFrom(_, _, _)
InsertFrom(batch, i, acc) ==
  IF i > Len(batch) THEN acc
  ELSE LET r == batch[i]
           doc == CrudDoc(acc.nextId, Canon(r.p), NoStr, r.y, r.m, r.v)
       IN IF ~RecordValid(r)
          THEN InsertFrom(batch, i + 1, [acc EXCEPT !.invalid = @ + 1])
          ELSE IF DuplicateKey("climate", acc.store, doc)
          THEN InsertFrom(batch, i + 1, [acc EXCEPT !.writeErrors = @ + 1])
          ELSE InsertFrom(batch, i + 1,
                          [acc EXCEPT !.store = @ \cup {doc}, !.nextId = @ + 1,
                                      !.ids = @ \cup {doc.id}])

insertMany(S, n, batch) == InsertFrom(batch, 1, InsertResult(S, n, {}, 0, 0))

\* what a round adds to totalCreated when insertMany returns
\* (insertedCount || batch.length with rawResult, result.length without)
CreatedOnReturn(handler, batch, out) ==
  IF handler = "streamBulkCreateClimate" THEN Cardinality(out.ids)
  ELSE IF Cardinality(out.ids) # 0 THEN Cardinality(out.ids) ELSE Len(batch)

\* what a round adds to totalCreated when insertMany throws code 11000
CreatedOnDuplicate(batch, out) == Len(batch) - out.writeErrors

\* the entry a round pushes on errors[] ("-" when it pushes none)
ChunkError(handler, out, fault) ==
  IF fault # "none"
  THEN (IF handler = "streamBulkCreateClimate" THEN NoStr ELSE "Batch error")
  ELSE IF out.writeErrors > 0 /\ handler = "bulkCreateClimate" THEN "duplicates"
  ELSE NoStr

\* progress of a chunked request: the records it carries, the chunks handed to
\* insertMany so far with the ids each one inserted, the running count, the
\* collection when the request began and the response status once it is sent
ChunkProgress(op, handler, records, chunks, ids, totalCreated, errors, before, status) ==
  [op |-> op, handler |-> handler, records |-> records, chunks |-> chunks,
   ids |-> ids, totalCreated |-> totalCreated, errors |-> errors,
   before |-> before, status |-> status]

NoChunkResp == ChunkProgress("none", NoStr, <<>>, <<>>, <<>>, 0, <<>>, {}, NoField)

ChunkInit ==
  /\ ds = "climate"
  /\ store \in SUBSET CrudPool("climate")
  /\ nextId = 3
  /\ resp = NoChunkResp
  /\ strictQuery = FALSE
  /\ call = [w \in Workers |-> IdleCall]
  /\ faulted = FALSE
  /\ mapDb = NoMapDb

\* the request arrives: bulkCreateClimate answers 400 to an empty list
StartChunked(handler, records) ==
  /\ resp.op = "none"
  /\ resp' = ChunkProgress(IF handler = "bulkCreateClimate" /\ Len(records) = 0
                           THEN "done" ELSE "run",
                           handler, records, <<>>, <<>>, 0, <<>>, store,
                           IF handler = "bulkCreateClimate" /\ Len(records) = 0
                           THEN 400 ELSE NoField)
  /\ UNCHANGED <<ds, strictQuery, store, nextId, call, faulted, mapDb>>

\* one round of the loop: try { insertMany } catch { count or record }
InsertChunk(fault) ==
  /\ resp.op = "run"
  /\ Len(resp.chunks) < ChunkCount(Len(resp.records))
  /\ fault # "none" => ~faulted
  /\ LET batch == Batch(resp.records, Len(resp.chunks) + 1)
         tried == insertMany(store, nextId, batch)
         out == IF fault = "before" THEN InsertResult(store, nextId, {}, 0, 0) ELSE tried
         added == IF fault # "none" THEN 0
                  ELSE IF out.writeErrors > 0 THEN CreatedOnDuplicate(batch, out)
                  ELSE CreatedOnReturn(resp.handler, batch, out)
         e == ChunkError(resp.handler, out, fault)
     IN /\ store' = out.store
        /\ nextId' = out.nextId
        /\ faulted' = (faulted \/ fault # "none")
        /\ resp' = [resp EXCEPT !.chunks = Append(@, batch),
                                !.ids = Append(@, out.ids),
                                !.totalCreated = @ + added,
                                !.errors = IF e = NoStr THEN @ ELSE Append(@, e)]
  /\ UNCHANGED <<ds, strictQuery, call, mapDb>>

\* the loop is over: the summary is sent
RespondChunked ==
  /\ resp.op = "run"
  /\ Len(resp.chunks) = ChunkCount(Len(resp.records))
  /\ resp' = [resp EXCEPT !.op = "done", !.status = 201]
  /\ UNCHANGED <<ds, strictQuery, store, nextId, call, faulted, mapDb>>

ChunkNext ==
  \/ \E handler \in ChunkHandlers : \E records \in ClimateInputs : StartChunked(handler, records)
  \/ \E fault \in ChunkFaults : InsertChunk(fault)
  \/ RespondChunked

ChunkSpec == ChunkInit /\ [][ChunkNext]_vars

\* the loop awaits each insertMany, whose promise settles, and sends the summary
\* when the loop is over; the arrival of a request is not forced
ChunkFairSpec ==
  ChunkSpec /\ WF_vars(\E fault \in ChunkFaults : InsertChunk(fault)) /\ WF_vars(RespondChunked)

\* ---- vocabulary of the chunked creation properties ----
RECURSIVE Concat(_)
Concat(seqs) == IF seqs = <<>> THEN <<>> ELSE Head(seqs) \o Concat(Tail(seqs))

\* ids the call inserted, over all its chunks
RECURSIVE InsertedIds(_)
InsertedIds(idsPerChunk) ==
  IF idsPerChunk = <<>> THEN {} ELSE Head(idsPerChunk) \cup InsertedIds(Tail(idsPerChunk))

\* the chunks handed to insertMany are consecutive pieces of the input, in order
ChunksPartitionPrefix ==
  /\ \A k \in 1..Len(resp.chunks) : Len(resp.chunks[k]) \in 1..ChunkSize
  /\ \A k \in 1..(Len(resp.chunks) - 1) : Len(resp.chunks[k]) = ChunkSize
  /\ Concat(resp.chunks) = SubSeq(resp.records, 1, Len(Concat(resp.chunks)))

\* C34: chunked climate bulk creation hands insertMany consecutive chunks of
\* the input in input order, every record in exactly one chunk; whatever a
\* chunk's insertMany does, the records earlier chunks inserted and the
\* records held before the call stay, every later chunk is still attempted
\* before the summary is sent, and no two stored records share
\* (provinceId, bulan, tahun)
C34_ChunksIndependentAndDuplicatesSkipped ==
  /\ [](resp.op \in {"run", "done"} =>
          /\ ChunksPartitionPrefix
          /\ \A id \in InsertedIds(resp.ids) : \E doc \in store : doc.id = id
          /\ resp.before \subseteq store
          /\ \A x \in store : \A z \in store :
               CrudIndexKey("climate", x) = CrudIndexKey("climate", z) => x = z
          /\ (resp.status = 201 => Concat(resp.chunks) = resp.records))
  /\ ((resp.op = "run") ~> (resp.op = "done" /\ Concat(resp.chunks) = resp.records))

\* a call of several chunks whose first chunk inserted nothing and whose second
\* chunk inserted, with a connection failure and an errors[] entry on the way
C34_Witness ==
  /\ resp.op = "done" /\ resp.status = 201
  /\ Len(resp.chunks) >= 2
  /\ faulted
  /\ Len(resp.errors) >= 1
  /\ resp.ids[1] = {} /\ resp.ids[2] # {}

\* C35: the created count of the summary equals the number of records the
\* call inserted into the collection
C35_CreatedCountIsInsertedCount ==
  (resp.op = "done" /\ resp.status = 201) =>
     resp.totalCreated = Cardinality(InsertedIds(resp.ids))

\* ---- seeding of the province registry ----
\* most initializeFromGeoJSON runs in a behaviour of SeedSpec
MaxSeedRuns == 3

\* getProvinsiList(): the PROVINSI property of every feature of the geometry file
ProvinsiList == <<"Aceh", "Bali", "Papua">>

\* a Province document
Province(id, name) == [id |-> id, name |-> name]

\* provinces the registry may hold when the behaviour starts: two of the
\* geometry file and one that the file does not have
ProvincePool == {Province(1, "Aceh"), Province(2, "Bali"), Province(3, "Zulu")}

\* the registry accepts every name, as a collection without a unique index does
NameNeverTaken(S, name) == FALSE

\* the unique index on name: E11000 when a province holds the name
NameTaken(S, name) == \E p \in S : p.name = name

\* one run of initializeFromGeoJSON: where it is, the names it read when it
\* began, the position in the list, the ids it created and the registry it
\* began with
SeedRun(pc, existingNames, i, created, start) ==
  [pc |-> pc, existingNames |-> existingNames, i |-> i, created |-> created, start |-> start]

NoSeedRun == SeedRun("idle", {}, 1, {}, {})

SeedInit ==
  /\ store \in SUBSET ProvincePool
  /\ nextId = 4
  /\ resp = [runs |-> 0, run |-> [w \in Workers |-> NoSeedRun]]
  /\ ds = "province"
  /\ strictQuery = FALSE
  /\ call = [w \in Workers |-> IdleCall]
  /\ faulted = FALSE
  /\ mapDb = NoMapDb

\* const existingProvinces = await this.find({}, 'name')
StartSeeding(w) ==
  /\ resp.run[w].pc # "loop"
  /\ resp.runs < MaxSeedRuns
  /\ resp' = [runs |-> resp.runs + 1,
              run |-> [resp.run EXCEPT ![w] =
                         SeedRun("loop", {p.name : p \in store}, 1, {}, store)]]
  /\ UNCHANGED <<ds, strictQuery, store, nextId, call, faulted, mapDb>>

\* one round of the loop over provinceNames: skip a name that was read, create
\* the others; a create that the index rejects throws out of the run
SeedStep(w) ==
  /\ resp.run[w].pc = "loop"
  /\ resp.run[w].i <= Len(ProvinsiList)
  /\ LET r == resp.run[w]
         name == ProvinsiList[r.i]
     IN IF name \in r.existingNames
        THEN /\ resp' = [resp EXCEPT !.run[w].i = @ + 1]
             /\ UNCHANGED <<store, nextId>>
        ELSE IF NameTaken(store, name)
        THEN /\ resp' = [resp EXCEPT !.run[w].pc = "failed"]
             /\ UNCHANGED <<store, nextId>>
        ELSE /\ store' = store \cup {Province(nextId, name)}
             /\ nextId' = nextId + 1
             /\ resp' = [resp EXCEPT !.run[w].i = @ + 1,
                                     !.run[w].created = @ \cup {nextId}]
  /\ UNCHANGED <<ds, strictQuery, call, faulted, mapDb>>

\* return await this.find()
FinishSeeding(w) ==
  /\ resp.run[w].pc = "loop"
  /\ resp.run[w].i > Len(ProvinsiList)
  /\ resp' = [resp EXCEPT !.run[w].pc = "done"]
  /\ UNCHANGED <<ds, strictQuery, store, nextId, call, faulted, mapDb>>

SeedNext ==
  \E w \in Workers : StartSeeding(w) \/ SeedStep(w) \/ FinishSeeding(w)

SeedSpec == SeedInit /\ [][SeedNext]_vars

\* ---- vocabulary of the seeding property ----
\* every name of the geometry file is held by a province
Seeded(S) == \A k \in 1..Len(ProvinsiList) : \E p \in S : p.name = ProvinsiList[k]

\* C36: province names stay unique; once runs of initializeFromGeoJSON have
\* ended, one after the other or overlapping, and none is under way, the
\* registry holds exactly one province for every name of the geometry file;
\* a run that began on a seeded registry creates no province and leaves every
\* province as it was
C36_SeedingIdempotentNamesUnique ==
  /\ \A x \in store : \A z \in store : x.name = z.name => x = z
  /\ (resp.runs > 0 /\ \A w \in Workers : resp.run[w].pc # "loop") =>
        \A k \in 1..Len(ProvinsiList) :
           Cardinality({p \in store : p.name = ProvinsiList[k]}) = 1
  /\ \A w \in Workers :
        (resp.run[w].pc # "idle" /\ Seeded(resp.run[w].start)) =>
           (resp.run[w].created = {} /\ resp.run[w].start \subseteq store)

\* two overlapping runs, one thrown out by the index, then a run on the seeded
\* registry that has ended
C36_Witness ==
  /\ resp.runs = 3
  /\ \E w \in Workers : resp.run[w].pc = "failed"
  /\ \E w \in Workers :
        resp.run[w].pc = "done" /\ Seeded(resp.run[w].start) /\ resp.run[w].start # {}
  /\ Cardinality(store) >= 3

\* ---- margin records between provinces (MPP) ----
\* an MPP document: sourceProvinceId, targetProvinceId, distribution_costs and
\* distribution_volume
MppDoc(id, s, t, costs, volume) ==
  [id |-> id, s |-> s, t |-> t, costs |-> costs, volume |-> volume]

\* a request body or a row of records[]; a path it does not carry is Missing / Absent
MppBody(s, t, costs, volume) == [s |-> s, t |-> t, costs |-> costs, volume |-> volume]

MppBodies ==
  { MppBody(s, t, costs, volume) :
      s \in {Missing, "a", "b"}, t \in {Missing, "a", "b"},
      costs \in {Absent, 1}, volume \in {Absent, 1} }

\* records[] of a bulk request
MppBatches == UNION { [1..n -> MppBodies] : n \in 0..MaxRows }

\* records the collection may hold when the behaviour starts
MppPool == {MppDoc(1, "a", "b", 1, 1), MppDoc(2, "b", "a", 1, 1)}

MppIds == 1..(2 + MaxRequests * MaxRows)

\* document validation: the required paths, min 0 and the pre('validate') hook
\* that invalidates a record whose source is its target
MppValid(doc) ==
  /\ doc.s # Missing /\ doc.t # Missing
  /\ doc.costs # Absent /\ doc.costs >= 0
  /\ doc.volume # Absent /\ doc.volume >= 0
  /\ doc.s # doc.t

\* the unique index on (sourceProvinceId, targetProvinceId)
PairTaken(S, doc) == \E o \in S : o.id # doc.id /\ o.s = doc.s /\ o.t = doc.t

\* the response with the request it answers, the collection before the request
\* and the number of requests served
MppResponse(status, op, id, body, before, n) ==
  [status |-> status, op |-> op, id |-> id, body |-> body, before |-> before, n |-> n]

NoMppResp == MppResponse(NoField, "none", NoDoc, MppBody(Missing, Missing, Absent, Absent), {}, 0)

\* createMPP: new MPP({ sourceProvinceId, targetProvinceId, distribution_costs }).save()
createMPP(S, n, b) ==
  LET doc == MppDoc(n, b.s, b.t, b.costs, Absent)
  IN IF ~MppValid(doc) THEN Outcome(400, S)
     ELSE IF PairTaken(S, doc) THEN Outcome(400, S)
     ELSE Outcome(201, S \cup {doc})

\* MPP.insertMany(records, { ordered: false }): invalid rows are left out, the
\* index rejects the rows whose pair is held, the others are inserted
RECURSIVE MppInsertFrom(_, _, _)
MppInsertFrom(records, i, acc) ==
  IF i > Len(records) THEN acc
  ELSE LET b == records[i]
           doc == MppDoc(acc.nextId, b.s, b.t, b.costs, b.volume)
       IN IF ~MppValid(doc)
          THEN MppInsertFrom(records, i + 1, [acc EXCEPT !.invalid = @ + 1])
          ELSE IF PairTaken(acc.store, doc)
          THEN MppInsertFrom(records, i + 1, [acc EXCEPT !.writeErrors = @ + 1])
          ELSE MppInsertFrom(records, i + 1,
                             [acc EXCEPT !.store = @ \cup {doc}, !.nextId = @ + 1,
                                         !.ids = @ \cup {doc.id}])

\* bulkCreateMPP: 400 for an empty list and when insertMany throws
bulkCreateMPP(S, n, records) ==
  IF Len(records) = 0 THEN InsertResult(S, n, {}, 0, 0)
  ELSE MppInsertFrom(records, 1, InsertResult(S, n, {}, 0, 0))

\* update validators of findByIdAndUpdate(..., { runValidators: true }): the
\* validators of the paths the update sets; document middleware does not run
UpdateValid(b) ==
  /\ (b.costs # Absent => b.costs >= 0)
  /\ (b.volume # Absent => b.volume >= 0)

\* the record after { $set: req.body }
MppSet(doc, b) ==
  [doc EXCEPT !.s = IF b.s # Missing THEN b.s ELSE @,
              !.t = IF b.t # Missing THEN b.t ELSE @,
              !.costs = IF b.costs # Absent THEN b.costs ELSE @,
              !.volume = IF b.volume # Absent THEN b.volume ELSE @]

\* updateMPP: findByIdAndUpdate(req.params.id, req.body, { new: true, runValidators: true })
updateMPP(S, id, b) ==
  IF ~UpdateValid(b) THEN Outcome(400, S)
  ELSE IF ~\E d \in S : d.id = id THEN Outcome(404, S)
  ELSE LET d == CHOOSE d \in S : d.id = id
           u == MppSet(d, b)
       IN IF PairTaken(S, u) THEN Outcome(400, S)
          ELSE Outcome(200, (S \ {d}) \cup {u})

MppInit ==
  /\ store \in SUBSET MppPool
  /\ nextId = 3
  /\ resp = NoMppResp
  /\ ds = "mpp"
  /\ strictQuery = FALSE
  /\ call = [w \in Workers |-> IdleCall]
  /\ faulted = FALSE
  /\ mapDb = NoMapDb

CreateMPP(b) ==
  /\ resp.n < MaxRequests
  /\ LET out == createMPP(store, nextId, b)
     IN /\ store' = out.store
        /\ nextId' = IF out.status = 201 THEN nextId + 1 ELSE nextId
        /\ resp' = MppResponse(out.status, "createMPP", NoDoc, b, store, resp.n + 1)
  /\ UNCHANGED <<ds, strictQuery, call, faulted, mapDb>>

BulkCreateMPP(records) ==
  /\ resp.n < MaxRequests
  /\ LET out == bulkCreateMPP(store, nextId, records)
     IN /\ store' = out.store
        /\ nextId' = out.nextId
        /\ resp' = MppResponse(IF Len(records) = 0 \/ out.writeErrors > 0 THEN 400 ELSE 201,
                               "bulkCreateMPP", NoDoc,
                               IF Len(records) = 0 THEN NoMppResp.body ELSE records[1],
                               store, resp.n + 1)
  /\ UNCHANGED <<ds, strictQuery, call, faulted, mapDb>>

UpdateMPP(id, b) ==
  /\ resp.n < MaxRequests
  /\ LET out == updateMPP(store, id, b)
     IN /\ store' = out.store
        /\ resp' = MppResponse(out.status, "updateMPP", id, b, store, resp.n + 1)
  /\ UNCHANGED <<ds, strictQuery, nextId, call, faulted, mapDb>>

MppNext ==
  \/ \E b \in MppBodies : CreateMPP(b)
  \/ \E records \in MppBatches : BulkCreateMPP(records)
  \/ \E id \in MppIds : \E b \in MppBodies : UpdateMPP(id, b)

MppSpec == MppInit /\ [][MppNext]_vars

\* ---- vocabulary of the MPP property ----
NoSelfPair == \A d \in store : d.s # d.t

UniquePairs == \A x \in store : \A z \in store : (x.s = z.s /\ x.t = z.t) => x = z

\* the last request was an update of a stored record whose body makes the
\* record's source and target the same province
UpdateToSelfPair ==
  /\ resp.op = "updateMPP"
  /\ \E d \in resp.before : d.id = resp.id /\ MppSet(d, resp.body).s = MppSet(d, resp.body).t

\* C37: after any sequence of createMPP, bulkCreateMPP and updateMPP calls no
\* stored MPP record has its source province as its target, no two records
\* share a (source, target) pair, and an update that would make source and
\* target the same is answered 400
C37_NoSelfPairNoDuplicatePair ==
  /\ NoSelfPair
  /\ UniquePairs
  /\ (UpdateToSelfPair => resp.status = 400)

====
